---- MODULE Spec2Model ----
(***************************************************************************)
(* Verification model of logpipe: the WorkerPool (src/workers/workerPool), *)
(* the CheckpointManager (src/utils/checkpointManager) together with the   *)
(* CLI prologue that consults it, the HttpSender sink, the transform       *)
(* stages (base, filter, map, aggregate) and the worker's task handlers.   *)
(***************************************************************************)
EXTENDS Integers, Sequences, FiniteSets, TLC

\* ------------------------------------------------------------------------
\* Bounds of the model
\* ------------------------------------------------------------------------
NumWorkers == 1
MaxTasks == 3
MaxCrashTasks == 2
MaxCrashes == 1
MaxStatsPending == 3

MaxRuns == 2
MaxClock == 1
MaxRecords == 2
MaxOffset == 2
MaxLine == 1

MaxHttpRecords == 4
MaxBatchSize == 2
MaxRetries == 3

MaxStageRecords == 2

MaxAggRecords == 4
MaxValue == 1

MaxBatchRecords == 2

MaxInputLen == 4
MaxChunkLen == 2

MaxWtRecords == 2

MaxHandles == NumWorkers + 2 * MaxCrashes
Handles == 1..MaxHandles
Tasks == 1..MaxTasks

VARIABLES
  \* ---- WorkerPool (main thread) ----
  workers,        \* this.workers: sequence of worker handles
  busyWorkers,    \* this.busyWorkers: set of worker handles
  taskQueue,      \* this.taskQueue: sequence of task ids
  stats,          \* this.stats
  shuttingDown,   \* this.shuttingDown
  initState,      \* init(): "new" | "pending" | "ready" | "failed"
  cwp,            \* per handle, the promise returned by createWorker
  promise,        \* per task, the promise returned by submitTask
  settles,        \* per task, calls of resolve/reject made by its listeners
  posted,         \* per task, number of worker.postMessage({type:'task'}) calls
  nextTask,       \* next fresh task id
  nextHandle,     \* next fresh worker handle (object identity)
  shutPc,         \* shutdown(): "none" | "waiting" | "terminating" | "done"
  shutForce,      \* the force argument of shutdown()
  termWait,       \* workers whose 'exit' the shutdown still awaits
  \* ---- worker threads ----
  wslot,          \* worker.id (slot id) of each handle
  wlive,          \* "none" | "starting" | "running" | "crashed" | "terminated"
  inbox,          \* messages posted to the worker, not yet processed
  events,         \* messages/events emitted by the worker, not yet handled
  crashes         \* number of worker crashes so far

VARIABLES
  \* ---- CheckpointManager and the CLI run that owns it ----
  cmPc,           \* "off" | "constructed" | "started" | "running"
  runs,           \* number of process runs started so far
  now,            \* Date.now()
  enabled,        \* this.enabled
  state,          \* this.state
  files,          \* the file system: checkpoint path and its .tmp sibling
  savePc,         \* saveCheckpoint(): "idle" | "begun" | "writing" | "written"
  saveCaller,     \* who called saveCheckpoint(): "timer" | "stop" | "signal"
  saveStats,      \* the stats object saveCheckpoint() is persisting
  recordCount,    \* CheckpointStream.recordCount
  checkpointPosition, \* main(): checkpointPosition (null or {offset, line})
  readStart       \* byte offset at which the input read stream starts

ckptVars == <<cmPc, runs, now, enabled, state, files, savePc, saveCaller,
              saveStats, recordCount, checkpointPosition, readStart>>

VARIABLES
  \* ---- HttpSender (a Writable in object mode) ----
  batchSize,      \* this.batchSize
  retries,        \* this.retries
  batch,          \* this.batch
  hstats,         \* this.stats
  wstate,         \* "new" | "idle" | "writing" | "callback" | "finished" | "errored"
  wbuffered,      \* Writable: chunks written while a write is in progress
  ending,         \* Writable: end() has been called
  sendPc,         \* sendBatch(): "idle" | "request" | "backoff"
  sendCaller,     \* who awaits sendBatch(): "write" | "writev" | "final"
  batchToSend,    \* sendBatch(): batchToSend
  attempt,        \* sendBatch(): attempt
  delay,          \* sendBatch(): the backoff delay being waited
  responses,      \* what the endpoint answered to the requests of this batch
  sendResult,     \* outcome of the last sendBatch(): "none"|"success"|"failed"
  nextRec         \* next record the upstream writes

httpVars == <<batchSize, retries, batch, hstats, wstate, wbuffered, ending,
              sendPc, sendCaller, batchToSend, attempt, delay, responses,
              sendResult, nextRec>>

VARIABLES
  \* ---- a transform stage (BaseTransformer and its subclasses) ----
  stagePc,          \* "none" | "flowing" | "errored"
  stage,            \* the options the stage was constructed with
  stageCalls,       \* the records handed to _transform and what the
                    \* stage's function did on each
  stageOut,         \* the records pushed downstream
  stageErrors,      \* number of errors passed to the _transform callback
  processedCount,   \* this.processedCount
  transformedCount, \* this.transformedCount
  callbacks         \* number of calls of the _transform callback

stageVars == <<stagePc, stage, stageCalls, stageOut, stageErrors,
               processedCount, transformedCount, callbacks>>

VARIABLES
  \* ---- an AggregateTransformer ----
  aggPc,            \* "none" | "flowing" | "finished" | "ended"
  aggKind,          \* the combiner: "count" | "stats"
  maxGroups,        \* this.maxGroups
  flushInterval,    \* this.flushInterval
  lastFlushTime,    \* this.lastFlushTime
  groups,           \* this.groups
  recordsPerGroup,  \* this.recordsPerGroup
  aggOut,           \* the records pushed downstream
  aggSegs,          \* the input records, cut at every call of flushAll
  flushLog          \* what each call of flushAll pushed

aggVars == <<aggPc, aggKind, maxGroups, flushInterval, lastFlushTime,
             groups, recordsPerGroup, aggOut, aggSegs, flushLog>>

VARIABLES
  \* ---- a worker thread running one task ----
  wkPc,             \* "idle" | "posted" | "replied"
  wkTask,           \* the task message posted to the worker
  wkReply           \* the message the worker posted back

workerTaskVars == <<wkPc, wkTask, wkReply>>

VARIABLES
  \* ---- an NDJSONParser (a Transform from text chunks to records) ----
  ndPc,             \* "none" | "flowing" | "finished"
  ndjson,           \* the parser: buffer, lineCount, errorCount,
                    \* maxErrorLogs
  ndChunks,         \* the chunks handed to _transform so far
  ndOut             \* the records pushed downstream

parserVars == <<ndPc, ndjson, ndChunks, ndOut>>

VARIABLES
  \* ---- a WorkerTransformer, its upstream and its pool ----
  wtPc,             \* "none" | "flowing" | "ending" | "flushing" |
                    \* "waiting" | "finished" | "errored"
  wt,               \* the transformer: taskType, workerScript, workerData,
                    \* batchSize, initialized, recordBatch, pendingRecords,
                    \* processedCount, transformedCount
  wtIn,             \* the records handed to _transform so far
  wtCb,             \* per record, the calls of its completion callback
  wtOut,            \* the values pushed downstream
  wtTask            \* the task submitted to the pool and not yet settled

wtVars == <<wtPc, wt, wtIn, wtCb, wtOut, wtTask>>

VARIABLES
  \* ---- a ProgressStream (a Transform over the chunks of the file) ----
  psPc,             \* "none" | "flowing" | "threw" | "finished"
  ps,               \* the stream object: its properties progressTracker
                    \* and tracker
  psIn,             \* the chunks handed to _transform so far
  psOut,            \* the chunks pushed downstream
  psCallbacks       \* number of calls of the _transform callback

progressVars == <<psPc, ps, psIn, psOut, psCallbacks>>

streamVars == <<parserVars, wtVars, progressVars>>

xformVars == <<stageVars, aggVars, workerTaskVars, streamVars>>

nonPoolVars == <<ckptVars, httpVars, xformVars>>

poolVars == <<workers, busyWorkers, taskQueue, stats, shuttingDown, initState,
              cwp, promise, settles, posted, nextTask, nextHandle, shutPc,
              shutForce, termWait, wslot, wlive, inbox, events, crashes>>

nonStageVars ==
  <<poolVars, ckptVars, httpVars, aggVars, workerTaskVars, streamVars>>
nonAggVars ==
  <<poolVars, ckptVars, httpVars, stageVars, workerTaskVars, streamVars>>
nonWorkerVars ==
  <<poolVars, ckptVars, httpVars, stageVars, aggVars, streamVars>>
nonStreamVars ==
  <<poolVars, ckptVars, httpVars, stageVars, aggVars, workerTaskVars>>
nonParserVars == <<nonStreamVars, wtVars, progressVars>>
nonWtVars == <<nonStreamVars, parserVars, progressVars>>
nonProgressVars == <<nonStreamVars, parserVars, wtVars>>

\* ------------------------------------------------------------------------
\* Helpers
\* ------------------------------------------------------------------------
Range(s) == {s[i] : i \in 1..Len(s)}

RECURSIVE SeqFilter(_, _)
SeqFilter(s, keep) ==
  IF s = <<>> THEN <<>>
  ELSE IF Head(s) \in keep THEN <<Head(s)>> \o SeqFilter(Tail(s), keep)
       ELSE SeqFilter(Tail(s), keep)

Msg(type, taskId, code) == [type |-> type, taskId |-> taskId, code |-> code]

\* ------------------------------------------------------------------------
\* WorkerPool
\* ------------------------------------------------------------------------
PoolInit ==
  /\ workers = <<>>
  /\ busyWorkers = {}
  /\ taskQueue = <<>>
  /\ stats = [tasksSubmitted |-> 0, tasksCompleted |-> 0, tasksErrored |-> 0]
  /\ shuttingDown = FALSE
  /\ initState = "new"
  /\ cwp = [h \in Handles |-> "none"]
  /\ promise = [t \in Tasks |-> "none"]
  /\ settles = [t \in Tasks |-> 0]
  /\ posted = [t \in Tasks |-> 0]
  /\ nextTask = 1
  /\ nextHandle = 1
  /\ shutPc = "none"
  /\ shutForce = FALSE
  /\ termWait = {}
  /\ wslot = [h \in Handles |-> -1]
  /\ wlive = [h \in Handles |-> "none"]
  /\ inbox = [h \in Handles |-> <<>>]
  /\ events = [h \in Handles |-> <<>>]
  /\ crashes = 0

\* processQueue: the workers not in the busy set, in list order; while both
\* the queue and that list are non-empty, pop() the last available worker
\* and shift() the oldest task.  Yields the <<worker, task>> assignments.
RECURSIVE AssignLoop(_, _, _)
AssignLoop(avail, queue, acc) ==
  IF Len(queue) = 0 \/ Len(avail) = 0 THEN acc
  ELSE AssignLoop(SubSeq(avail, 1, Len(avail) - 1), Tail(queue),
                  Append(acc, <<avail[Len(avail)], Head(queue)>>))

\* Variant: the assigned tasks stay on the queue.
processQueue_noShift(ws, busy, queue) ==
  LET avail == SeqFilter(ws, Range(ws) \ busy)
      asg == AssignLoop(avail, queue, <<>>)
  IN [busy |-> busy \cup {asg[i][1] : i \in 1..Len(asg)},
      queue |-> queue,
      asg |-> asg]

\* Variant: the newest task is taken from the queue (pop() instead of shift()).
processQueue_lifo(ws, busy, queue) ==
  LET avail == SeqFilter(ws, Range(ws) \ busy)
      rev == [i \in 1..Len(queue) |-> queue[Len(queue) + 1 - i]]
      asg == AssignLoop(avail, rev, <<>>)
  IN [busy |-> busy \cup {asg[i][1] : i \in 1..Len(asg)},
      queue |-> SubSeq(queue, 1, Len(queue) - Len(asg)),
      asg |-> asg]

processQueue(ws, busy, queue) ==
  LET avail == SeqFilter(ws, Range(ws) \ busy)
      asg == AssignLoop(avail, queue, <<>>)
  IN [busy |-> busy \cup {asg[i][1] : i \in 1..Len(asg)},
      queue |-> SubSeq(queue, Len(asg) + 1, Len(queue)),
      asg |-> asg]

\* Effect of the postMessage calls of one processQueue run on the workers'
\* inboxes: a worker thread that is gone silently drops the message.
PostAll(asg, live, box) ==
  [h \in Handles |->
     IF \E i \in 1..Len(asg) : asg[i][1] = h /\ live[h] \in {"starting", "running"}
     THEN Append(box[h], asg[CHOOSE i \in 1..Len(asg) : asg[i][1] = h][2])
     ELSE box[h]]

CountPosts(asg, cnt) ==
  [t \in Tasks |-> cnt[t] + Cardinality({i \in 1..Len(asg) : asg[i][2] = t})]

\* init(): createWorker(i) for every slot, then await Promise.all.
InitPool ==
  /\ UNCHANGED nonPoolVars
  /\ initState = "new"
  /\ nextHandle = 1
  /\ workers' = workers \o [i \in 1..NumWorkers |-> i]
  /\ wslot' = [h \in Handles |-> IF h <= NumWorkers THEN h - 1 ELSE wslot[h]]
  /\ wlive' = [h \in Handles |-> IF h <= NumWorkers THEN "starting" ELSE wlive[h]]
  /\ cwp' = [h \in Handles |-> IF h <= NumWorkers THEN "pending" ELSE cwp[h]]
  /\ nextHandle' = NumWorkers + 1
  /\ initState' = "pending"
  /\ UNCHANGED <<busyWorkers, taskQueue, stats, shuttingDown, promise, settles,
                 posted, nextTask, shutPc, shutForce, termWait, inbox, events,
                 crashes>>

\* submitTask(task): register the listeners, push on the queue, count it,
\* then processQueue().
submitTask ==
  /\ UNCHANGED nonPoolVars
  /\ nextTask <= MaxTasks
  /\ LET t == nextTask
         pq == processQueue(workers, busyWorkers, Append(taskQueue, t))
     IN /\ promise' = [promise EXCEPT ![t] = "pending"]
        /\ stats' = [stats EXCEPT !.tasksSubmitted = @ + 1]
        /\ taskQueue' = pq.queue
        /\ busyWorkers' = pq.busy
        /\ inbox' = PostAll(pq.asg, wlive, inbox)
        /\ posted' = CountPosts(pq.asg, posted)
        /\ nextTask' = t + 1
  /\ UNCHANGED <<workers, shuttingDown, initState, cwp, settles, nextHandle,
                 shutPc, shutForce, termWait, wslot, wlive, events, crashes>>

\* ---- worker thread (worker.js) ----

\* The worker script has run to its end: handlers registered, 'ready' posted.
WorkerStart(h) ==
  /\ UNCHANGED nonPoolVars
  /\ wlive[h] = "starting"
  /\ wlive' = [wlive EXCEPT ![h] = "running"]
  /\ events' = [events EXCEPT ![h] = Append(@, Msg("ready", 0, 0))]
  /\ UNCHANGED <<workers, busyWorkers, taskQueue, stats, shuttingDown,
                 initState, cwp, promise, settles, posted, nextTask,
                 nextHandle, shutPc, shutForce, termWait, wslot, inbox,
                 crashes>>

\* processTask: run the handler of the oldest task message and post exactly
\* one answer for it, 'result' or 'error'.
processTask(h, outcome) ==
  /\ UNCHANGED nonPoolVars
  /\ wlive[h] = "running"
  /\ inbox[h] # <<>>
  /\ inbox' = [inbox EXCEPT ![h] = Tail(@)]
  /\ events' = [events EXCEPT ![h] = Append(@, Msg(outcome, Head(inbox[h]), 0))]
  /\ UNCHANGED <<workers, busyWorkers, taskQueue, stats, shuttingDown,
                 initState, cwp, promise, settles, posted, nextTask,
                 nextHandle, shutPc, shutForce, termWait, wslot, wlive,
                 crashes>>

\* sendStats, run by the worker's setInterval timer: post a 'stats' message.
sendStats(h) ==
  /\ UNCHANGED nonPoolVars
  /\ wlive[h] = "running"
  /\ Cardinality({i \in 1..Len(events[h]) : events[h][i].type = "stats"})
       < MaxStatsPending
  /\ events' = [events EXCEPT ![h] = Append(@, Msg("stats", 0, 0))]
  /\ UNCHANGED <<workers, busyWorkers, taskQueue, stats, shuttingDown,
                 initState, cwp, promise, settles, posted, nextTask,
                 nextHandle, shutPc, shutForce, termWait, wslot, wlive, inbox,
                 crashes>>

\* The worker thread dies: an uncaught exception ('error' event followed by
\* 'exit' with code 1) or an exit with non-zero status ('exit' only).
\* Whatever it held in its inbox dies with it.
WorkerCrash(h, kind) ==
  /\ UNCHANGED nonPoolVars
  /\ wlive[h] \in {"starting", "running"}
  /\ crashes < MaxCrashes
  /\ crashes' = crashes + 1
  /\ wlive' = [wlive EXCEPT ![h] = "crashed"]
  /\ events' = [events EXCEPT ![h] =
                  IF kind = "error"
                  THEN @ \o <<Msg("errorEvent", 0, 0), Msg("exit", 0, 1)>>
                  ELSE Append(@, Msg("exit", 0, 1))]
  /\ UNCHANGED <<workers, busyWorkers, taskQueue, stats, shuttingDown,
                 initState, cwp, promise, settles, posted, nextTask,
                 nextHandle, shutPc, shutForce, termWait, wslot, inbox>>

\* ---- WorkerPool event handlers ----

\* The once('message') listener of createWorker: resolve on 'ready', reject
\* on anything else.
OnceMessage(h, type) ==
  IF cwp[h] # "pending" THEN cwp[h]
  ELSE IF type = "ready" THEN "resolved" ELSE "rejected"

\* 'ready' message: handleWorkerMessage ignores it (default branch); the
\* createWorker promise resolves.  For an init worker Promise.all may now
\* resolve; for a replacement, replaceWorker continues with processQueue().
HandleReady(h) ==
  /\ UNCHANGED nonPoolVars
  /\ events[h] # <<>>
  /\ Head(events[h]).type = "ready"
  /\ events' = [events EXCEPT ![h] = Tail(@)]
  /\ cwp' = [cwp EXCEPT ![h] = OnceMessage(h, "ready")]
  /\ IF h <= NumWorkers
     THEN /\ initState' = IF initState = "pending"
                             /\ \A g \in 1..NumWorkers : cwp'[g] = "resolved"
                          THEN "ready" ELSE initState
          /\ UNCHANGED <<taskQueue, busyWorkers, inbox, posted>>
     ELSE LET pq == processQueue(workers, busyWorkers, taskQueue)
          IN /\ taskQueue' = pq.queue
             /\ busyWorkers' = pq.busy
             /\ inbox' = PostAll(pq.asg, wlive, inbox)
             /\ posted' = CountPosts(pq.asg, posted)
             /\ UNCHANGED initState
  /\ UNCHANGED <<workers, stats, shuttingDown, promise, settles, nextTask,
                 nextHandle, shutPc, shutForce, termWait, wslot, wlive,
                 crashes>>

\* Variant: only the 'task:completed' listener is registered.
Settle_noReject(t, how) ==
  IF how = "rejected"
  THEN UNCHANGED <<settles, promise>>
  ELSE /\ settles' = [settles EXCEPT ![t] = IF promise[t] = "none" THEN @ ELSE @ + 1]
       /\ promise' = [promise EXCEPT ![t] = IF @ = "pending" THEN how ELSE @]

\* The listeners registered by submitTask: the one whose task id matches
\* calls resolve (or reject); removeListeners looks the task up in the
\* queue, where it no longer is, and removes nothing.
Settle(t, how) ==
  /\ settles' = [settles EXCEPT ![t] = IF promise[t] = "none" THEN @ ELSE @ + 1]
  /\ promise' = [promise EXCEPT ![t] = IF @ = "pending" THEN how ELSE @]

\* handleTaskResult
handleTaskResult(h) ==
  /\ UNCHANGED nonPoolVars
  /\ events[h] # <<>>
  /\ Head(events[h]).type = "result"
  /\ events' = [events EXCEPT ![h] = Tail(@)]
  /\ cwp' = [cwp EXCEPT ![h] = OnceMessage(h, "result")]
  /\ stats' = [stats EXCEPT !.tasksCompleted = @ + 1]
  /\ Settle(Head(events[h]).taskId, "resolved")
  /\ LET pq == processQueue(workers, busyWorkers \ {h}, taskQueue)
     IN /\ taskQueue' = pq.queue
        /\ busyWorkers' = pq.busy
        /\ inbox' = PostAll(pq.asg, wlive, inbox)
        /\ posted' = CountPosts(pq.asg, posted)
  /\ UNCHANGED <<workers, shuttingDown, initState, nextTask, nextHandle,
                 shutPc, shutForce, termWait, wslot, wlive, crashes>>

\* handleTaskError
handleTaskError(h) ==
  /\ UNCHANGED nonPoolVars
  /\ events[h] # <<>>
  /\ Head(events[h]).type = "error"
  /\ events' = [events EXCEPT ![h] = Tail(@)]
  /\ cwp' = [cwp EXCEPT ![h] = OnceMessage(h, "error")]
  /\ stats' = [stats EXCEPT !.tasksErrored = @ + 1]
  /\ Settle(Head(events[h]).taskId, "rejected")
  /\ LET pq == processQueue(workers, busyWorkers \ {h}, taskQueue)
     IN /\ taskQueue' = pq.queue
        /\ busyWorkers' = pq.busy
        /\ inbox' = PostAll(pq.asg, wlive, inbox)
        /\ posted' = CountPosts(pq.asg, posted)
  /\ UNCHANGED <<workers, shuttingDown, initState, nextTask, nextHandle,
                 shutPc, shutForce, termWait, wslot, wlive, crashes>>

\* handleWorkerStats: emit 'worker:stats'; the pool's state is untouched.
handleWorkerStats(h) ==
  /\ UNCHANGED nonPoolVars
  /\ events[h] # <<>>
  /\ Head(events[h]).type = "stats"
  /\ events' = [events EXCEPT ![h] = Tail(@)]
  /\ cwp' = [cwp EXCEPT ![h] = OnceMessage(h, "stats")]
  /\ UNCHANGED <<workers, busyWorkers, taskQueue, stats, shuttingDown,
                 initState, promise, settles, posted, nextTask, nextHandle,
                 shutPc, shutForce, termWait, wslot, wlive, inbox, crashes>>

\* Variant: the old worker is not deleted from the busy set.
replaceWorker_keepBusy(old) ==
  /\ workers' = Append(SeqFilter(workers, Range(workers) \ {old}), nextHandle)
  /\ busyWorkers' = busyWorkers
  /\ wslot' = [wslot EXCEPT ![nextHandle] = wslot[old]]
  /\ wlive' = [wlive EXCEPT ![nextHandle] = "starting"]
  /\ cwp' = [cwp EXCEPT ![nextHandle] = "pending"]
  /\ nextHandle' = nextHandle + 1

\* replaceWorker(oldWorker), up to its await: splice the old worker out of
\* the list, delete it from the busy set, createWorker(id) (a new handle
\* with the same slot id is pushed on the list and starts).
replaceWorker(old) ==
  /\ workers' = Append(SeqFilter(workers, Range(workers) \ {old}), nextHandle)
  /\ busyWorkers' = busyWorkers \ {old}
  /\ wslot' = [wslot EXCEPT ![nextHandle] = wslot[old]]
  /\ wlive' = [wlive EXCEPT ![nextHandle] = "starting"]
  /\ cwp' = [cwp EXCEPT ![nextHandle] = "pending"]
  /\ nextHandle' = nextHandle + 1

\* worker.on('error')
HandleErrorEvent(h) ==
  /\ UNCHANGED nonPoolVars
  /\ events[h] # <<>>
  /\ Head(events[h]).type = "errorEvent"
  /\ events' = [events EXCEPT ![h] = Tail(@)]
  /\ IF ~shuttingDown
     THEN replaceWorker(h)
     ELSE UNCHANGED <<workers, busyWorkers, wslot, wlive, cwp, nextHandle>>
  /\ UNCHANGED <<taskQueue, stats, shuttingDown, initState, promise, settles,
                 posted, nextTask, shutPc, shutForce, termWait, inbox,
                 crashes>>

\* worker.on('exit'), and the once('exit') listener shutdown() adds; when
\* the last awaited exit arrives shutdown() finishes.
HandleExit(h) ==
  /\ UNCHANGED nonPoolVars
  /\ events[h] # <<>>
  /\ Head(events[h]).type = "exit"
  /\ events' = [events EXCEPT ![h] = Tail(@)]
  /\ termWait' = termWait \ {h}
  /\ IF Head(events[h]).code # 0 /\ ~shuttingDown
     THEN /\ replaceWorker(h)
          /\ UNCHANGED shutPc
     ELSE IF h \in termWait /\ termWait' = {}
     THEN /\ workers' = <<>>
          /\ busyWorkers' = {}
          /\ shutPc' = "done"
          /\ UNCHANGED <<wslot, wlive, cwp, nextHandle>>
     ELSE UNCHANGED <<workers, busyWorkers, wslot, wlive, cwp, nextHandle,
                      shutPc>>
  /\ UNCHANGED <<taskQueue, stats, shuttingDown, initState, promise, settles,
                 posted, nextTask, shutForce, inbox, crashes>>

\* ---- shutdown ----

\* The tail of shutdown(): terminate() every worker of the list and await
\* the 'exit' of each; with no worker to wait for it finishes at once.
TerminateAll ==
  LET ws == Range(workers)
  IN IF ws = {}
     THEN /\ shutPc' = "done"
          /\ workers' = <<>>
          /\ busyWorkers' = {}
          /\ UNCHANGED <<termWait, wlive, events>>
     ELSE /\ shutPc' = "terminating"
          /\ termWait' = ws
          /\ wlive' = [h \in Handles |->
                         IF h \in ws /\ wlive[h] \in {"starting", "running"}
                         THEN "terminated" ELSE wlive[h]]
          /\ events' = [h \in Handles |->
                          IF h \in ws /\ wlive[h] \in {"starting", "running"}
                          THEN Append(events[h], Msg("exit", 0, 1)) ELSE events[h]]
          /\ UNCHANGED <<workers, busyWorkers>>

\* shutdown(force): set the flag; wait only if not forced and the queue is
\* non-empty; otherwise go straight on to terminate the workers.
shutdown(force) ==
  /\ UNCHANGED nonPoolVars
  /\ shutPc = "none"
  /\ shuttingDown' = TRUE
  /\ shutForce' = force
  /\ IF ~force /\ Len(taskQueue) > 0
     THEN /\ shutPc' = "waiting"
          /\ UNCHANGED <<workers, busyWorkers, termWait, wlive, events>>
     ELSE TerminateAll
  /\ UNCHANGED <<taskQueue, stats, initState, cwp, promise, settles, posted,
                 nextTask, nextHandle, wslot, inbox, crashes>>

\* checkQueue, the poll of the waiting shutdown(): once the queue is empty
\* and no worker is busy the wait ends and the workers are terminated.
checkQueue ==
  /\ UNCHANGED nonPoolVars
  /\ shutPc = "waiting"
  /\ Len(taskQueue) = 0 /\ busyWorkers = {}
  /\ TerminateAll
  /\ UNCHANGED <<taskQueue, stats, shuttingDown, initState, cwp, promise,
                 settles, posted, nextTask, nextHandle, shutForce, wslot,
                 inbox, crashes>>

\* The steps of the worker threads and of the pool's message handlers that
\* occur when no worker fails.
PoolWork ==
  \/ InitPool
  \/ \E h \in Handles : WorkerStart(h)
  \/ \E h \in Handles : processTask(h, "result")
  \/ \E h \in Handles : processTask(h, "error")
  \/ \E h \in Handles : HandleReady(h)
  \/ \E h \in Handles : handleTaskResult(h)
  \/ \E h \in Handles : handleTaskError(h)

\* The caller awaits init() before it uses the pool (WorkerTransformer
\* submits and shuts down only once initWorkerPool has returned).
SubmitAfterInit ==
  /\ initState = "ready"
  /\ submitTask

\* The same caller, in the runs where workers die or the pool is shut down:
\* fewer tasks are submitted there.
SubmitFewAfterInit ==
  /\ nextTask <= MaxCrashTasks
  /\ SubmitAfterInit

ShutdownAfterInit(force) ==
  /\ initState = "ready"
  /\ shutdown(force)

\* Worker threads that may die at any time, and the main thread's handling
\* of their 'error' and 'exit' events.
PoolCrashes ==
  \/ \E h \in Handles : WorkerCrash(h, "error")
  \/ \E h \in Handles : WorkerCrash(h, "exit")
  \/ \E h \in Handles : HandleErrorEvent(h)
  \/ \E h \in Handles : HandleExit(h)

\* A pool that is never shut down and whose workers may die.
PoolCrashNext ==
  \/ PoolWork
  \/ SubmitFewAfterInit
  \/ PoolCrashes

\* The whole life of a pool used by a caller that awaits init().
PoolNext ==
  \/ PoolWork
  \/ SubmitFewAfterInit
  \/ PoolCrashes
  \/ ShutdownAfterInit(FALSE)
  \/ ShutdownAfterInit(TRUE)
  \/ checkQueue

\* A pool whose workers never fail and that is never shut down, with the
\* workers' periodic 'stats' messages interleaved with their answers.
PoolHealthyNext ==
  \/ PoolWork
  \/ SubmitAfterInit
  \/ \E h \in Handles : sendStats(h)
  \/ \E h \in Handles : handleWorkerStats(h)

\* ------------------------------------------------------------------------
\* CheckpointManager and the CLI main() that drives it
\* ------------------------------------------------------------------------
\* Variant: the checkpoint is written straight to the checkpoint path.
tempFilePath_direct == "ckpt"

filePath == "ckpt"
tempFilePath == "tmp"
Paths == {"ckpt", "tmp"}

\* The constructor's initial this.state; elapsedTimeMs = -1 stands for the
\* field being absent (it only enters the state with a loaded checkpoint).
FreshState(t) ==
  [lastProcessedOffset |-> 0, lastProcessedLine |-> 0, recordsProcessed |-> 0,
   startTime |-> t, lastCheckpointTime |-> t, status |-> "initialized",
   elapsedTimeMs |-> -1]

NoFile == [exists |-> FALSE, complete |-> FALSE, data |-> FreshState(0)]
FileOf(data, complete) == [exists |-> TRUE, complete |-> complete, data |-> data]

NullPosition == [isNull |-> TRUE, offset |-> 0, line |-> 0]

\* _meta of a parsed record: absent, or {offset, line} as found in the input.
Metas ==
  {[present |-> FALSE, offset |-> 0, line |-> 0]} \cup
  [present : {TRUE}, offset : 0..MaxOffset, line : 1..MaxLine]

\* A line of the input file: where it sits in the file (byte offset, line
\* number) and the _meta field of the JSON object written on it.
InputLines == [offset : 0..MaxOffset, lineCount : 1..MaxLine, meta : Metas]

\* NDJSONParser._transform: a non-blank line is pushed as JSON.parse(line):
\* the record has the fields written on the line and nothing else (the
\* parser's lineCount and the byte position of the line are not attached).
NDJSONParser(inputLine) == inputLine.meta

CkptInit ==
  /\ cmPc = "off"
  /\ runs = 0
  /\ now = 0
  /\ enabled = FALSE
  /\ state = FreshState(0)
  /\ files = [p \in Paths |-> NoFile]
  /\ savePc = "idle"
  /\ saveCaller = "timer"
  /\ saveStats = FreshState(0)
  /\ recordCount = 0
  /\ checkpointPosition = NullPosition
  /\ readStart = -1

\* loadCheckpoint: no file, an unparsable file or one without a positive
\* lastProcessedOffset leaves the state alone; otherwise Object.assign the
\* checkpoint into the state and move startTime back by its elapsedTimeMs.
loadCheckpoint(en, st, file, t) ==
  IF ~en \/ ~file.exists THEN st
  ELSE IF ~file.complete THEN st
  ELSE IF file.data.lastProcessedOffset = 0 THEN st
  ELSE [file.data EXCEPT !.startTime =
          t - (IF file.data.elapsedTimeMs = -1 THEN 0
               ELSE file.data.elapsedTimeMs)]

\* shouldResume
shouldResume(en, st) ==
  /\ en
  /\ st.lastProcessedOffset > 0
  /\ st.status \in {"interrupted", "running"}

\* Variant: the line number is returned as the offset.
getResumePosition_line(st) ==
  [isNull |-> FALSE, offset |-> st.lastProcessedLine,
   line |-> st.lastProcessedLine]

\* getResumePosition
getResumePosition(st) ==
  [isNull |-> FALSE, offset |-> st.lastProcessedOffset,
   line |-> st.lastProcessedLine]

\* processFile: readOptions.start is set only for a checkpoint with a
\* positive offset (-1 stands for undefined).
processFileStart(pos) ==
  IF ~pos.isNull /\ pos.offset > 0 THEN pos.offset ELSE -1

\* createReadStream: fs.createReadStream starts at options.start when that
\* is positive, at byte 0 otherwise.
createReadStream(start) ==
  IF start # -1 /\ start > 0 THEN start ELSE 0

\* updateState: Object.assign(this.state, update) when enabled.
updateState(en, st, offset, line, count) ==
  IF ~en THEN st
  ELSE [st EXCEPT !.lastProcessedOffset = offset,
                  !.lastProcessedLine = line,
                  !.recordsProcessed = count]

\* The process is gone: nothing of its memory remains.
ProcessEnd ==
  /\ cmPc' = "off"
  /\ enabled' = FALSE
  /\ state' = FreshState(0)
  /\ savePc' = "idle"
  /\ saveCaller' = "timer"
  /\ saveStats' = FreshState(0)
  /\ recordCount' = 0
  /\ checkpointPosition' = NullPosition
  /\ readStart' = -1

\* A process run begins: the CheckpointManager is constructed (and loads).
Construct(en) ==
  /\ cmPc = "off"
  /\ runs < MaxRuns
  /\ runs' = runs + 1
  /\ enabled' = en
  /\ state' = loadCheckpoint(en, FreshState(now), files[filePath], now)
  /\ recordCount' = 0
  /\ checkpointPosition' = NullPosition
  /\ readStart' = -1
  /\ cmPc' = "constructed"
  /\ UNCHANGED <<now, files, savePc, saveCaller, saveStats>>
  /\ UNCHANGED <<poolVars, httpVars, xformVars>>

\* start()
start ==
  /\ cmPc = "constructed"
  /\ state' = IF enabled
              THEN [state EXCEPT !.status = "running", !.startTime = now]
              ELSE state
  /\ cmPc' = "started"
  /\ UNCHANGED <<runs, now, enabled, files, savePc, saveCaller, saveStats,
                 recordCount, checkpointPosition, readStart>>
  /\ UNCHANGED <<poolVars, httpVars, xformVars>>

\* main(): consult shouldResume(), then processFile opens the input.
ResumeCheck ==
  /\ cmPc = "started"
  /\ checkpointPosition' = IF shouldResume(enabled, state)
                           THEN getResumePosition(state) ELSE NullPosition
  /\ readStart' = createReadStream(processFileStart(checkpointPosition'))
  /\ cmPc' = "running"
  /\ UNCHANGED <<runs, now, enabled, state, files, savePc, saveCaller,
                 saveStats, recordCount>>
  /\ UNCHANGED <<poolVars, httpVars, xformVars>>

\* CheckpointStream._transform
CheckpointStreamTransform(meta) ==
  /\ cmPc = "running"
  /\ savePc = "idle"
  /\ recordCount < MaxRecords
  /\ recordCount' = recordCount + 1
  /\ state' = IF meta.present /\ meta.offset # 0
              THEN updateState(enabled, state, meta.offset, meta.line,
                               recordCount')
              ELSE state
  /\ UNCHANGED <<cmPc, runs, now, enabled, files, savePc, saveCaller,
                 saveStats, checkpointPosition, readStart>>
  /\ UNCHANGED <<poolVars, httpVars, xformVars>>

\* saveCheckpoint(), first part: stamp lastCheckpointTime and build the
\* stats object (state plus elapsedTimeMs).
SaveBegin(caller, st) ==
  /\ state' = [st EXCEPT !.lastCheckpointTime = now]
  /\ saveStats' = [state' EXCEPT !.elapsedTimeMs = now - st.startTime]
  /\ saveCaller' = caller
  /\ savePc' = "begun"

\* The setInterval callback of start().
TimerSave ==
  /\ cmPc = "running"
  /\ enabled
  /\ savePc = "idle"
  /\ SaveBegin("timer", state)
  /\ UNCHANGED <<cmPc, runs, now, enabled, files, recordCount,
                 checkpointPosition, readStart>>
  /\ UNCHANGED <<poolVars, httpVars, xformVars>>

\* The pipeline has finished: main() calls stop().
stop ==
  /\ cmPc = "running"
  /\ savePc = "idle"
  /\ IF enabled
     THEN /\ SaveBegin("stop", [state EXCEPT !.status = "completed"])
          /\ UNCHANGED <<cmPc, enabled, recordCount, checkpointPosition,
                         readStart>>
     ELSE ProcessEnd
  /\ UNCHANGED <<runs, now, files>>
  /\ UNCHANGED <<poolVars, httpVars, xformVars>>

\* Variant: the CLI's handler runs first: stop() marks the state completed
\* and saves, then the process exits.
signalHandler_cliFirst ==
  /\ cmPc \in {"started", "running"}
  /\ savePc = "idle"
  /\ IF enabled
     THEN /\ SaveBegin("signal", [state EXCEPT !.status = "completed"])
          /\ UNCHANGED <<cmPc, enabled, recordCount, checkpointPosition,
                         readStart>>
     ELSE ProcessEnd
  /\ UNCHANGED <<runs, now, files>>
  /\ UNCHANGED <<poolVars, httpVars, xformVars>>

\* SIGINT/SIGTERM, any time after start(): the manager's handler, registered
\* first, marks the state interrupted, saves and exits (the CLI's handler,
\* registered later, never gets to run); when disabled the process just
\* exits.
signalHandler ==
  /\ cmPc \in {"started", "running"}
  /\ savePc = "idle"
  /\ IF enabled
     THEN /\ SaveBegin("signal", [state EXCEPT !.status = "interrupted"])
          /\ UNCHANGED <<cmPc, enabled, recordCount, checkpointPosition,
                         readStart>>
     ELSE ProcessEnd
  /\ UNCHANGED <<runs, now, files>>
  /\ UNCHANGED <<poolVars, httpVars, xformVars>>

\* saveCheckpoint() returns to its caller: the timer callback just ends,
\* after stop() main() ends, the signal handler calls process.exit.
SaveReturn ==
  IF saveCaller = "timer"
  THEN /\ savePc' = "idle"
       /\ saveStats' = FreshState(0)
       /\ UNCHANGED <<cmPc, enabled, state, saveCaller, recordCount,
                      checkpointPosition, readStart>>
  ELSE ProcessEnd

\* fs.writeFileSync(tempFilePath, ...): the content reaches the disk piece
\* by piece.
WriteTmpPartial ==
  /\ savePc = "begun"
  /\ files' = [files EXCEPT ![tempFilePath] = FileOf(saveStats, FALSE)]
  /\ savePc' = "writing"
  /\ UNCHANGED <<cmPc, runs, now, enabled, state, saveCaller, saveStats,
                 recordCount, checkpointPosition, readStart>>
  /\ UNCHANGED <<poolVars, httpVars, xformVars>>

WriteTmpComplete ==
  /\ savePc = "writing"
  /\ files' = [files EXCEPT ![tempFilePath] = FileOf(saveStats, TRUE)]
  /\ savePc' = "written"
  /\ UNCHANGED <<cmPc, runs, now, enabled, state, saveCaller, saveStats,
                 recordCount, checkpointPosition, readStart>>
  /\ UNCHANGED <<poolVars, httpVars, xformVars>>

\* fs.renameSync(tempFilePath, this.filePath): atomic replacement.
renameSync(fs, from, to) ==
  IF from = to THEN fs
  ELSE [p \in Paths |-> IF p = to THEN fs[from]
                        ELSE IF p = from THEN NoFile ELSE fs[p]]

RenameTmp ==
  /\ savePc = "written"
  /\ files' = renameSync(files, tempFilePath, filePath)
  /\ SaveReturn
  /\ UNCHANGED <<runs, now>>
  /\ UNCHANGED <<poolVars, httpVars, xformVars>>

\* An I/O error inside saveCheckpoint(): caught, logged, not fatal.
SaveError ==
  /\ savePc \in {"begun", "writing", "written"}
  /\ SaveReturn
  /\ UNCHANGED <<runs, now, files>>
  /\ UNCHANGED <<poolVars, httpVars, xformVars>>

\* The process is killed (SIGKILL, power loss) at any point.
Kill ==
  /\ cmPc # "off"
  /\ ProcessEnd
  /\ UNCHANGED <<runs, now, files>>
  /\ UNCHANGED <<poolVars, httpVars, xformVars>>

\* Time passes while the process runs.
Tick ==
  /\ cmPc # "off"
  /\ now < MaxClock
  /\ now' = now + 1
  /\ UNCHANGED <<cmPc, runs, enabled, state, files, savePc, saveCaller,
                 saveStats, recordCount, checkpointPosition, readStart>>
  /\ UNCHANGED <<poolVars, httpVars, xformVars>>

CkptNext ==
  \/ Construct(TRUE)
  \/ Construct(FALSE)
  \/ start
  \/ ResumeCheck
  \/ \E record \in {NDJSONParser(inputLine) : inputLine \in InputLines} :
       CheckpointStreamTransform(record)
  \/ TimerSave
  \/ stop
  \/ signalHandler
  \/ WriteTmpPartial
  \/ WriteTmpComplete
  \/ RenameTmp
  \/ SaveError
  \/ Kill

\* The same with the clock running.
CkptClockNext ==
  \/ CkptNext
  \/ Tick

\* ------------------------------------------------------------------------
\* HttpSender
\* ------------------------------------------------------------------------
retryDelay == 1000

RECURSIVE Pow2(_)
Pow2(n) == IF n <= 0 THEN 1 ELSE 2 * Pow2(n - 1)

HttpInit ==
  /\ batchSize = 0
  /\ retries = 0
  /\ batch = <<>>
  /\ hstats = [recordsReceived |-> 0, recordsSent |-> 0, batchesSent |-> 0,
               batchesFailed |-> 0, retriesPerformed |-> 0]
  /\ wstate = "new"
  /\ wbuffered = <<>>
  /\ ending = FALSE
  /\ sendPc = "idle"
  /\ sendCaller = "write"
  /\ batchToSend = <<>>
  /\ attempt = 0
  /\ delay = 0
  /\ responses = <<>>
  /\ sendResult = "none"
  /\ nextRec = 1

\* Variant: the loop runs one attempt too many.
MoreAttempts_offByOne(att, success) == att <= retries /\ ~success

\* constructor: the sender is created with its batchSize and retries.
HttpSender(size, tries) ==
  /\ wstate = "new"
  /\ batchSize' = size
  /\ retries' = tries
  /\ wstate' = "idle"
  /\ UNCHANGED <<batch, hstats, wbuffered, ending, sendPc, sendCaller,
                 batchToSend, attempt, delay, responses, sendResult, nextRec>>
  /\ UNCHANGED <<poolVars, ckptVars, xformVars>>

\* The loop condition of sendBatch.
MoreAttempts(att, success) == att < retries /\ ~success

\* Variant: sendBatch waits after every failed attempt.
BackoffNeeded_always(att) == att <= retries

\* The condition under which sendBatch waits after a failed attempt.
BackoffNeeded(att) == att < retries

\* sendRequest resolves for a status in [200,300); any other status, a
\* transport error and a timeout reject it.
FailureOutcomes == {"status", "error", "timeout"}

\* Variant: sendBatch leaves the records it sends in this.batch.
StartSend_keepBatch(b, caller) ==
  /\ batchToSend' = b
  /\ batch' = b
  /\ attempt' = 1
  /\ responses' = <<>>
  /\ sendResult' = "none"
  /\ sendPc' = "request"
  /\ sendCaller' = caller
  /\ wstate' = "writing"
  /\ delay' = 0

\* sendBatch() up to its first await: take the batch, empty the buffer and
\* issue the first request.
StartSend(b, caller) ==
  /\ batchToSend' = b
  /\ batch' = <<>>
  /\ attempt' = 1
  /\ responses' = <<>>
  /\ sendResult' = "none"
  /\ sendPc' = "request"
  /\ sendCaller' = caller
  /\ wstate' = "writing"
  /\ delay' = 0

\* Variant: _final completes without sending what is left.
Final_noFlush(b) ==
  /\ wstate' = "finished"
  /\ batch' = b
  /\ UNCHANGED <<batchToSend, attempt, responses, sendResult, sendPc,
                 sendCaller, delay>>

\* _final: send what is left, or finish at once.
Final(b) ==
  IF Len(b) > 0
  THEN StartSend(b, "final")
  ELSE /\ wstate' = "finished"
       /\ batch' = b
       /\ UNCHANGED <<batchToSend, attempt, responses, sendResult, sendPc,
                      sendCaller, delay>>

\* A write callback was called without error and nothing is buffered: the
\* stream is idle again or, after end(), runs _final.
Drained(b) ==
  IF ending
  THEN Final(b)
  ELSE /\ wstate' = "idle"
       /\ batch' = b
       /\ UNCHANGED <<batchToSend, attempt, responses, sendResult, sendPc,
                      sendCaller, delay>>

\* The body shared by _write and _writev: push the chunk(s), then send if
\* the batch has reached batchSize, else call back at once.
Accept(chunks, caller) ==
  LET b == batch \o chunks IN
  /\ hstats' = [hstats EXCEPT !.recordsReceived = @ + Len(chunks)]
  /\ IF Len(b) >= batchSize
     THEN StartSend(b, caller)
     ELSE Drained(b)

HttpWrite(record) == Accept(<<record>>, "write")
HttpWritev(chunks) == Accept(chunks, "writev")

\* The upstream writes a record: handed to _write when the stream is idle,
\* buffered by the Writable while a write is in progress.
Write ==
  /\ nextRec <= MaxHttpRecords
  /\ ~ending
  /\ wstate \in {"idle", "writing", "callback"}
  /\ nextRec' = nextRec + 1
  /\ IF wstate = "idle"
     THEN /\ HttpWrite(nextRec)
          /\ UNCHANGED wbuffered
     ELSE /\ wbuffered' = Append(wbuffered, nextRec)
          /\ UNCHANGED <<batch, hstats, wstate, sendPc, sendCaller,
                         batchToSend, attempt, delay, responses, sendResult>>
  /\ UNCHANGED <<batchSize, retries, ending>>
  /\ UNCHANGED <<poolVars, ckptVars, xformVars>>

\* The upstream ends the stream; _final runs once all writes are done.
End ==
  /\ ~ending
  /\ wstate \in {"idle", "writing", "callback"}
  /\ ending' = TRUE
  /\ IF wstate = "idle"
     THEN Final(batch)
     ELSE UNCHANGED <<batch, wstate, sendPc, sendCaller, batchToSend,
                      attempt, delay, responses, sendResult>>
  /\ UNCHANGED <<batchSize, retries, hstats, wbuffered, nextRec>>
  /\ UNCHANGED <<poolVars, ckptVars, xformVars>>

\* The Writable after a successful callback: what was buffered meanwhile is
\* handed over, through _writev when more than one chunk is waiting, else
\* through _write; with nothing buffered the stream is drained.
AfterWrite ==
  /\ wstate = "callback"
  /\ wbuffered' = <<>>
  /\ IF Len(wbuffered) > 1 THEN HttpWritev(wbuffered)
     ELSE IF Len(wbuffered) = 1 THEN HttpWrite(wbuffered[1])
     ELSE /\ Drained(batch)
          /\ UNCHANGED hstats
  /\ UNCHANGED <<batchSize, retries, ending, nextRec>>
  /\ UNCHANGED <<poolVars, ckptVars, xformVars>>

\* The request got a 2xx response: counters updated, sendBatch resolves and
\* the caller's callback is called without error.
RequestSucceeds ==
  /\ sendPc = "request"
  /\ responses' = Append(responses, "2xx")
  /\ hstats' = [hstats EXCEPT !.recordsSent = @ + Len(batchToSend),
                              !.batchesSent = @ + 1]
  /\ sendResult' = "success"
  /\ sendPc' = "idle"
  /\ wstate' = IF sendCaller = "final" THEN "finished" ELSE "callback"
  /\ UNCHANGED <<batchSize, retries, batch, wbuffered, ending, sendCaller,
                 batchToSend, attempt, delay, nextRec>>
  /\ UNCHANGED <<poolVars, ckptVars, xformVars>>

\* Variant: the permanent failure is not thrown, the callback gets no error.
LoopTest_swallow(st) ==
  IF MoreAttempts(attempt, FALSE)
  THEN /\ attempt' = attempt + 1
       /\ sendPc' = "request"
       /\ hstats' = st
       /\ UNCHANGED <<sendResult, wstate, wbuffered>>
  ELSE /\ sendResult' = "failed"
       /\ sendPc' = "idle"
       /\ wstate' = IF sendCaller = "final" THEN "finished" ELSE "callback"
       /\ hstats' = [st EXCEPT !.batchesFailed = @ + 1]
       /\ UNCHANGED <<attempt, wbuffered>>

\* The head of sendBatch's while loop, reached after a failed attempt: try
\* again, or give up (batchesFailed++, throw: the callback gets the error
\* and the stream is destroyed).
LoopTest(st) ==
  IF MoreAttempts(attempt, FALSE)
  THEN /\ attempt' = attempt + 1
       /\ sendPc' = "request"
       /\ hstats' = st
       /\ UNCHANGED <<sendResult, wstate, wbuffered>>
  ELSE /\ sendResult' = "failed"
       /\ sendPc' = "idle"
       /\ wstate' = "errored"
       /\ wbuffered' = <<>>
       /\ hstats' = [st EXCEPT !.batchesFailed = @ + 1]
       /\ UNCHANGED attempt

\* The request failed (non-2xx status, transport error or timeout): count
\* it, then wait retryDelay * 2^(attempt-1) unless this was the last attempt.
RequestFails(outcome) ==
  /\ sendPc = "request"
  /\ responses' = Append(responses, outcome)
  /\ LET st == [hstats EXCEPT !.retriesPerformed = @ + 1]
     IN IF BackoffNeeded(attempt)
        THEN /\ delay' = retryDelay * Pow2(attempt - 1)
             /\ sendPc' = "backoff"
             /\ hstats' = st
             /\ UNCHANGED <<attempt, sendResult, wstate, wbuffered>>
        ELSE /\ LoopTest(st)
             /\ UNCHANGED delay
  /\ UNCHANGED <<batchSize, retries, batch, ending, sendCaller, batchToSend,
                 nextRec>>
  /\ UNCHANGED <<poolVars, ckptVars, xformVars>>

\* The backoff timer fires.
BackoffElapsed ==
  /\ sendPc = "backoff"
  /\ LoopTest(hstats)
  /\ delay' = 0
  /\ UNCHANGED <<batchSize, retries, batch, ending, sendCaller, batchToSend,
                 responses, nextRec>>
  /\ UNCHANGED <<poolVars, ckptVars, xformVars>>

HttpNext ==
  \/ \E size \in 1..MaxBatchSize, tries \in 1..MaxRetries : HttpSender(size, tries)
  \/ Write
  \/ End
  \/ AfterWrite
  \/ RequestSucceeds
  \/ \E outcome \in FailureOutcomes : RequestFails(outcome)
  \/ BackoffElapsed

\* ------------------------------------------------------------------------
\* Transform stages: BaseTransformer, FilterTransformer, MapTransformer
\* ------------------------------------------------------------------------
\* A field a record does not have reads as undefined.
Undefined == "undefined"
Levels == {"INFO", "ERROR"}

\* Records: objects with an optional level and an optional msg field.
Records == [level : Levels \cup {Undefined}, msg : {"a", Undefined}]

\* The options of a stage. options.filter is a predicate function or a
\* criteria object {level: L}; options.mapper is the function of
\* createFieldSelector(['level']) or a function of the caller.
StageOptions ==
  [kind : {"base"}, filter : {[fn |-> TRUE, criteria |-> Undefined]},
   includeMatches : {TRUE}, mapper : {"function"}, preserveOnError : {TRUE}]
  \cup
  [kind : {"filter"},
   filter : {[fn |-> TRUE, criteria |-> Undefined]} \cup
            [fn : {FALSE}, criteria : Levels],
   includeMatches : BOOLEAN, mapper : {"function"}, preserveOnError : {TRUE}]
  \cup
  [kind : {"map"}, filter : {[fn |-> TRUE, criteria |-> Undefined]},
   includeMatches : {TRUE}, mapper : {"fieldSelector", "function"},
   preserveOnError : BOOLEAN]

StageInit ==
  /\ stagePc = "none"
  /\ stage = [kind |-> "base", filter |-> [fn |-> TRUE, criteria |-> Undefined],
              includeMatches |-> TRUE, mapper |-> "function",
              preserveOnError |-> TRUE]
  /\ stageCalls = <<>>
  /\ stageOut = <<>>
  /\ stageErrors = 0
  /\ processedCount = 0
  /\ transformedCount = 0
  /\ callbacks = 0

\* What one call of the stage's user function does: it throws, or returns
\* a truth value (filterFn) or a record (mapperFn).
Outcome(threw, matches, ret) ==
  [threw |-> threw, matches |-> matches, ret |-> ret]

\* createFilterFromObject({level: value}): the record matches unless
\* getNestedValue(record, 'level') !== value.
createFilterFromObject(value, record) == ~(record["level"] # value)

\* createFieldSelector(['level']): a new object with the selected fields
\* the record has.
createFieldSelector(record) ==
  [level |-> record.level, msg |-> Undefined]

\* The outcomes the stage's function can have on a record: computed for the
\* functions the code builds, any outcome for a function of the caller.
FnOutcomes(options, record) ==
  CASE options.kind = "filter" /\ ~options.filter.fn ->
         {Outcome(FALSE,
                  createFilterFromObject(options.filter.criteria, record),
                  record)}
    [] options.kind = "filter" /\ options.filter.fn ->
         {Outcome(TRUE, FALSE, record)} \cup
         {Outcome(FALSE, m, record) : m \in BOOLEAN}
    [] options.kind = "map" /\ options.mapper = "fieldSelector" ->
         {Outcome(FALSE, FALSE, createFieldSelector(record))}
    [] options.kind = "map" /\ options.mapper = "function" ->
         {Outcome(TRUE, FALSE, record)} \cup
         {Outcome(FALSE, FALSE, m) : m \in Records}
    [] OTHER -> {Outcome(FALSE, FALSE, record)}

\* The arguments transformRecord hands to its callback: (error) or
\* (null, value), value being a record or null.
Result(error, hasValue, value) ==
  [error |-> error, hasValue |-> hasValue, value |-> value]

\* Variant: the default transformRecord hands over a fresh empty object.
BaseTransformRecord_fresh(record) ==
  Result(FALSE, TRUE, [level |-> Undefined, msg |-> Undefined])

\* BaseTransformer.transformRecord: callback(null, record).
BaseTransformRecord(record) == Result(FALSE, TRUE, record)

\* Variant: the filter ignores includeMatches.
FilterTransformRecord_ignoreMode(options, record, out) ==
  IF out.threw THEN Result(TRUE, FALSE, record)
  ELSE Result(FALSE, out.matches, record)

\* FilterTransformer.transformRecord
FilterTransformRecord(options, record, out) ==
  IF out.threw THEN Result(TRUE, FALSE, record)
  ELSE LET matches == out.matches
           shouldInclude == IF options.includeMatches THEN matches
                            ELSE ~matches
       IN  Result(FALSE, shouldInclude, record)

\* Variant: a mapper failure is always propagated.
MapTransformRecord_propagate(options, record, out) ==
  IF out.threw THEN Result(TRUE, FALSE, record)
  ELSE Result(FALSE, TRUE, out.ret)

\* MapTransformer.transformRecord
MapTransformRecord(options, record, out) ==
  IF out.threw
  THEN IF options.preserveOnError THEN Result(FALSE, TRUE, record)
       ELSE Result(TRUE, FALSE, record)
  ELSE Result(FALSE, TRUE, out.ret)

transformRecord(options, record, out) ==
  CASE options.kind = "filter" -> FilterTransformRecord(options, record, out)
    [] options.kind = "map" -> MapTransformRecord(options, record, out)
    [] OTHER -> BaseTransformRecord(record)

\* new BaseTransformer / FilterTransformer / MapTransformer (options)
NewTransformer(options) ==
  /\ stagePc = "none"
  /\ stage' = options
  /\ stagePc' = "flowing"
  /\ UNCHANGED <<stageCalls, stageOut, stageErrors, processedCount,
                 transformedCount, callbacks>>
  /\ UNCHANGED nonStageVars

\* BaseTransformer._transform: the stream hands over the next record once
\* the callback of the previous one has been called; an error passed to
\* the callback destroys the stream.
transform(record, out) ==
  /\ stagePc = "flowing"
  /\ callbacks = processedCount
  /\ processedCount < MaxStageRecords
  /\ processedCount' = processedCount + 1
  /\ stageCalls' = Append(stageCalls, [record |-> record, out |-> out])
  /\ LET res == transformRecord(stage, record, out)
     IN  IF res.error
         THEN /\ stageErrors' = stageErrors + 1
              /\ stagePc' = "errored"
              /\ UNCHANGED <<transformedCount, stageOut>>
         ELSE /\ IF res.hasValue
                 THEN /\ transformedCount' = transformedCount + 1
                      /\ stageOut' = Append(stageOut, res.value)
                 ELSE UNCHANGED <<transformedCount, stageOut>>
              /\ UNCHANGED <<stageErrors, stagePc>>
  /\ callbacks' = callbacks + 1
  /\ UNCHANGED stage
  /\ UNCHANGED nonStageVars

StageNext ==
  \/ \E options \in StageOptions : NewTransformer(options)
  \/ \E record \in Records :
       \E out \in FnOutcomes(stage, record) : transform(record, out)

\* ------------------------------------------------------------------------
\* AggregateTransformer with the createCounter and createStats combiners
\* ------------------------------------------------------------------------
defaultFlushInterval == 30000
defaultMaxGroups == 1000
defaultMaxErrorLogs == 10

\* JavaScript values of the fields the combiners read and write: a number
\* (the quotient v / d; d is 1 except for avg), a string that does not
\* read as a number, NaN, undefined.
Num(i) == [t |-> "num", v |-> i, d |-> 1]
Str == [t |-> "str", v |-> 0, d |-> 1]
NaN == [t |-> "nan", v |-> 0, d |-> 1]
Undef == [t |-> "undefined", v |-> 0, d |-> 1]

\* x || y: x if it is truthy (a non-empty string, a number other than 0).
Or(x, y) == IF x.t = "str" \/ (x.t = "num" /\ x.v # 0) THEN x ELSE y

\* Number(x): Number('x') and Number(undefined) are NaN.
Number(x) == IF x.t = "num" THEN x ELSE NaN
isNaN(x) == Number(x).t = "nan"

\* x + y for a number y: addition, or concatenation to a string x.
Plus(x, y) ==
  CASE x.t = "num" -> Num(x.v + y.v)
    [] x.t = "str" -> Str
    [] OTHER -> NaN

\* Math.min and Math.max: NaN if an argument does not convert to a number.
MathMin(x, y) ==
  IF isNaN(x) \/ isNaN(y) THEN NaN
  ELSE Num(IF x.v <= y.v THEN x.v ELSE y.v)

MathMax(x, y) ==
  IF isNaN(x) \/ isNaN(y) THEN NaN
  ELSE Num(IF x.v >= y.v THEN x.v ELSE y.v)

\* x / y
Divide(x, y) ==
  IF isNaN(x) \/ isNaN(y) THEN NaN
  ELSE [t |-> "num", v |-> x.v, d |-> y.v]

\* A log record as the aggregators see it: the key field (level), the
\* value field, and the fields the combiners add (absent in the input).
AggRecord(level, value) ==
  [level |-> level, value |-> value, count |-> Undef, sum |-> Undef,
   min |-> Undef, max |-> Undef, avg |-> Undef,
   agg |-> [present |-> FALSE, key |-> Undefined, count |-> 0]]

\* Input records of every key, and without a key.
LevelRecords == {AggRecord(l, Num(1)) : l \in Levels \cup {Undefined}}

\* Input records of one key with every value.
GroupRecords ==
  {AggRecord("INFO", Num(i)) : i \in (0 - MaxValue)..MaxValue} \cup
  {AggRecord("INFO", Str)}

\* A JavaScript Map in insertion order.
MapHas(m, k) == \E i \in 1..Len(m) : m[i].key = k
MapGet(m, k) == m[CHOOSE i \in 1..Len(m) : m[i].key = k].val
MapSet(m, k, x) ==
  IF MapHas(m, k)
  THEN [i \in 1..Len(m) |-> IF m[i].key = k THEN [key |-> k, val |-> x]
                            ELSE m[i]]
  ELSE Append(m, [key |-> k, val |-> x])

\* options.x || dflt, 0 standing for an option that is not given.
OptionOr(x, dflt) == IF x = 0 THEN dflt ELSE x

AggInit ==
  /\ aggPc = "none"
  /\ aggKind = "count"
  /\ maxGroups = defaultMaxGroups
  /\ flushInterval = defaultFlushInterval
  /\ lastFlushTime = 0
  /\ groups = <<>>
  /\ recordsPerGroup = <<>>
  /\ aggOut = <<>>
  /\ aggSegs = <<>>
  /\ flushLog = <<>>

\* keyFn for a field name: record[fieldName]
keyFn(record) == record.level

\* The aggregateFn of createCounter
createCounter(currentGroup, newRecord) ==
  [currentGroup EXCEPT !.count = Plus(Or(currentGroup.count, Num(1)), Num(1))]

\* Variant: the stats combiner does not test the new value.
createStats_noCheck(currentGroup, newRecord) ==
  LET value == Number(newRecord.value)
      count == Plus(Or(currentGroup.count, Num(1)), Num(1))
      sum == Plus(Or(currentGroup.sum, currentGroup.value), value)
      min == MathMin(IF currentGroup.min # Undef THEN currentGroup.min
                     ELSE currentGroup.value, value)
      max == MathMax(IF currentGroup.max # Undef THEN currentGroup.max
                     ELSE currentGroup.value, value)
      avg == Divide(sum, count)
  IN  [currentGroup EXCEPT !.count = count, !.sum = sum, !.min = min,
                           !.max = max, !.avg = avg]

\* The aggregateFn of createStats
createStats(currentGroup, newRecord) ==
  LET value == Number(newRecord.value)
  IN  IF isNaN(value) THEN currentGroup
      ELSE LET count == Plus(Or(currentGroup.count, Num(1)), Num(1))
               sum == Plus(Or(currentGroup.sum, currentGroup.value), value)
               min == MathMin(IF currentGroup.min # Undef
                              THEN currentGroup.min
                              ELSE currentGroup.value, value)
               max == MathMax(IF currentGroup.max # Undef
                              THEN currentGroup.max
                              ELSE currentGroup.value, value)
               avg == Divide(sum, count)
           IN  [currentGroup EXCEPT !.count = count, !.sum = sum,
                                    !.min = min, !.max = max, !.avg = avg]

aggregateFn(kind, currentGroup, newRecord) ==
  IF kind = "count" THEN createCounter(currentGroup, newRecord)
  ELSE createStats(currentGroup, newRecord)

\* transformRecord, the group table after the record is taken in.
AbsorbGroups(kind, gs, record) ==
  LET keyStr == keyFn(record)
  IN  IF ~MapHas(gs, keyStr) THEN MapSet(gs, keyStr, record)
      ELSE MapSet(gs, keyStr, aggregateFn(kind, MapGet(gs, keyStr), record))

\* transformRecord, the per-group record counts after the record is taken in.
AbsorbCounts(rpg, record) ==
  LET keyStr == keyFn(record)
  IN  IF ~MapHas(rpg, keyStr) THEN MapSet(rpg, keyStr, 1)
      ELSE MapSet(rpg, keyStr, MapGet(rpg, keyStr) + 1)

\* Variant: every group is annotated with the record count of the first
\* key of the table.
flushAll_firstCount(gs, rpg) ==
  [i \in 1..Len(gs) |->
     [gs[i].val EXCEPT !.agg = [present |-> TRUE, key |-> gs[i].key,
                                count |-> rpg[1].val]]]

\* Variant: the flush also writes the record count into the count field.
flushAll_countField(gs, rpg) ==
  [i \in 1..Len(gs) |->
     [gs[i].val EXCEPT !.agg = [present |-> TRUE, key |-> gs[i].key,
                                count |-> MapGet(rpg, gs[i].key)],
                       !.count = Num(MapGet(rpg, gs[i].key))]]

\* flushAll: the enriched groups it pushes, in the order of the Map
\* (flushTime is left out).
flushAll(gs, rpg) ==
  [i \in 1..Len(gs) |->
     [gs[i].val EXCEPT !.agg = [present |-> TRUE, key |-> gs[i].key,
                                count |-> MapGet(rpg, gs[i].key)]]]

\* createCounter(keyField, options) / createStats(keyField, valueField,
\* options)
NewAggregator(kind, optMaxGroups, optFlushInterval) ==
  /\ aggPc = "none"
  /\ aggKind' = kind
  /\ maxGroups' = OptionOr(optMaxGroups, defaultMaxGroups)
  /\ flushInterval' = OptionOr(optFlushInterval, defaultFlushInterval)
  /\ lastFlushTime' = 0
  /\ aggSegs' = <<<<>>>>
  /\ aggPc' = "flowing"
  /\ UNCHANGED <<groups, recordsPerGroup, aggOut, flushLog>>
  /\ UNCHANGED nonAggVars

\* _transform of an AggregateTransformer on a record, Date.now() reading t
\* inside transformRecord.
aggTransform(record, t) ==
  /\ aggPc = "flowing"
  /\ LET key == keyFn(record)
         gs == AbsorbGroups(aggKind, groups, record)
         rpg == AbsorbCounts(recordsPerGroup, record)
         seg == Append(aggSegs[Len(aggSegs)], record)
         segs == [aggSegs EXCEPT ![Len(aggSegs)] = seg]
     IN  IF key = Undefined
         THEN /\ aggOut' = Append(aggOut, record)
              /\ aggSegs' = segs
              /\ UNCHANGED <<groups, recordsPerGroup, lastFlushTime,
                             flushLog>>
         ELSE IF t - lastFlushTime >= flushInterval \/ Len(gs) >= maxGroups
         THEN /\ aggOut' = aggOut \o flushAll(gs, rpg)
              /\ flushLog' = Append(flushLog, flushAll(gs, rpg))
              /\ groups' = <<>>
              /\ recordsPerGroup' = <<>>
              /\ lastFlushTime' = t
              /\ aggSegs' = Append(segs, <<>>)
         ELSE /\ groups' = gs
              /\ recordsPerGroup' = rpg
              /\ aggSegs' = segs
              /\ UNCHANGED <<aggOut, lastFlushTime, flushLog>>
  /\ UNCHANGED <<aggPc, aggKind, maxGroups, flushInterval>>
  /\ UNCHANGED nonAggVars

\* All the input records so far, in order.
RECURSIVE Flat(_)
Flat(segs) == IF segs = <<>> THEN <<>> ELSE Head(segs) \o Flat(Tail(segs))

\* The readings of Date.now() that differ for the stage: before the flush
\* interval has elapsed since the last flush, or when it has.
ClockReadings == {lastFlushTime, lastFlushTime + flushInterval}

\* The upstream writes a log record.
AggWrite(record, t) ==
  /\ Len(Flat(aggSegs)) < MaxAggRecords
  /\ aggTransform(record, t)

\* The upstream writes a group record a flush has emitted before.
AggReload(i, t) ==
  /\ Len(Flat(aggSegs)) < MaxAggRecords
  /\ i \in 1..Len(aggOut)
  /\ aggOut[i].agg.present
  /\ aggTransform(aggOut[i], t)

\* _flush: the input has ended.
aggFlush ==
  /\ aggPc = "flowing"
  /\ aggOut' = aggOut \o flushAll(groups, recordsPerGroup)
  /\ flushLog' = Append(flushLog, flushAll(groups, recordsPerGroup))
  /\ groups' = <<>>
  /\ recordsPerGroup' = <<>>
  /\ aggSegs' = Append(aggSegs, <<>>)
  /\ aggPc' = "finished"
  /\ UNCHANGED <<aggKind, maxGroups, flushInterval, lastFlushTime>>
  /\ UNCHANGED nonAggVars

\* The 'end' listener of the constructor: flushAll() once more.
aggOnEnd ==
  /\ aggPc = "finished"
  /\ aggOut' = aggOut \o flushAll(groups, recordsPerGroup)
  /\ flushLog' = Append(flushLog, flushAll(groups, recordsPerGroup))
  /\ groups' = <<>>
  /\ recordsPerGroup' = <<>>
  /\ aggSegs' = Append(aggSegs, <<>>)
  /\ aggPc' = "ended"
  /\ UNCHANGED <<aggKind, maxGroups, flushInterval, lastFlushTime>>
  /\ UNCHANGED nonAggVars

\* An aggregator fed records of several keys.
AggNext ==
  \/ \E kind \in {"count", "stats"} :
       \E optMaxGroups \in {0, 2} : NewAggregator(kind, optMaxGroups, 0)
  \/ \E record \in LevelRecords :
       \E t \in ClockReadings : AggWrite(record, t)
  \/ aggFlush
  \/ aggOnEnd

\* An aggregator with the options of the CLI, fed records that share a key
\* and the group records it has flushed.
AggGroupNext ==
  \/ \E kind \in {"count", "stats"} : NewAggregator(kind, 0, 0)
  \/ \E record \in GroupRecords :
       \E t \in ClockReadings : AggWrite(record, t)
  \/ \E i \in 1..MaxAggRecords : \E t \in ClockReadings : AggReload(i, t)
  \/ aggFlush
  \/ aggOnEnd

\* ------------------------------------------------------------------------
\* The task handlers of the worker script
\* ------------------------------------------------------------------------
\* The data of a task as WorkerTransformer.processRecord builds it:
\* {record, options}. A field that is not given is an empty sequence
\* (record, records) or Undefined (criteria, value).
processRecordData(record) ==
  [record |-> <<record>>, records |-> <<>>, isBatch |-> FALSE,
   criteria |-> Undefined, value |-> Undefined]

\* The data of a task as WorkerTransformer.processBatch builds it:
\* {records, isBatch: true, options}.
processBatchData(records) ==
  [record |-> <<>>, records |-> records, isBatch |-> TRUE,
   criteria |-> Undefined, value |-> Undefined]

\* The data a task can carry: that of the two builders, and that of a
\* direct caller of submitTask who gives the criteria or the value too.
TaskDatas ==
  {processRecordData(r) : r \in Records} \cup
  {processBatchData(rs) :
     rs \in UNION {[1..n -> Records] : n \in 1..MaxBatchRecords}} \cup
  {[processRecordData(r) EXCEPT !.criteria = c] :
     r \in Records, c \in Levels} \cup
  {[processRecordData(r) EXCEPT !.value = "v"] : r \in Records}

WorkerInit ==
  /\ wkPc = "idle"
  /\ wkTask = [taskType |-> "transform",
               data |-> processBatchData(<<>>)]
  /\ wkReply = [type |-> "none", isArray |-> FALSE, result |-> <<>>]

\* The handlers registered for 'transform', 'filter' and 'hash': each throws
\* on data without the field it needs and returns one value otherwise (a
\* copy of the record, a truth value, a digest).
taskHandlers(taskType, data) ==
  CASE taskType = "transform" ->
         IF data.record = <<>> THEN [threw |-> TRUE, value |-> <<>>]
         ELSE [threw |-> FALSE,
               value |-> <<[t |-> "object", rec |-> data.record,
                            b |-> FALSE]>>]
    [] taskType = "filter" ->
         IF data.record = <<>> \/ data.criteria = Undefined
         THEN [threw |-> TRUE, value |-> <<>>]
         ELSE [threw |-> FALSE,
               value |-> <<[t |-> "boolean", rec |-> <<>>,
                            b |-> ~(data.record[1].level # data.criteria)]>>]
    [] OTHER ->
         IF data.value = Undefined THEN [threw |-> TRUE, value |-> <<>>]
         ELSE [threw |-> FALSE,
               value |-> <<[t |-> "string", rec |-> <<>>, b |-> FALSE]>>]

\* processQueue posts a task to an idle worker.
PostTask(taskType, data) ==
  /\ wkPc = "idle"
  /\ wkTask' = [taskType |-> taskType, data |-> data]
  /\ wkPc' = "posted"
  /\ UNCHANGED wkReply
  /\ UNCHANGED nonWorkerVars

\* processTask of the worker script: run the handler of the task type and
\* post its result, or the error it threw, to the main thread.
runTask ==
  /\ wkPc = "posted"
  /\ LET res == taskHandlers(wkTask.taskType, wkTask.data)
     IN  wkReply' = IF res.threw
                    THEN [type |-> "error", isArray |-> FALSE,
                          result |-> <<>>]
                    ELSE [type |-> "result", isArray |-> FALSE,
                          result |-> res.value]
  /\ wkPc' = "replied"
  /\ UNCHANGED wkTask
  /\ UNCHANGED nonWorkerVars

WorkerTaskNext ==
  \/ \E taskType \in {"transform", "filter", "hash"} :
       \E data \in TaskDatas : PostTask(taskType, data)
  \/ runTask

\* ------------------------------------------------------------------------
\* NDJSONParser
\* ------------------------------------------------------------------------
\* The characters of the input text. "a" and "b" stand for the text of a
\* JSON object up to its closing brace (two different objects), "}" for the
\* closing brace, "\n" for the line feed and " " for white space.
Chars == {"a", "b", "}", "\n", " "}
Chunks == UNION {[1..n -> Chars] : n \in 1..MaxChunkLen}

\* String.prototype.trim
RECURSIVE trim(_)
trim(str) ==
  IF str = <<>> THEN <<>>
  ELSE IF Head(str) = " " THEN trim(Tail(str))
  ELSE IF str[Len(str)] = " " THEN trim(SubSeq(str, 1, Len(str) - 1))
  ELSE str

\* JSON.parse: white space around the value is allowed; the text must be
\* one complete value; anything else throws a SyntaxError.
JSONparse(text) ==
  LET t == trim(text)
  IN  IF Len(t) = 2 /\ t[1] \in {"a", "b"} /\ t[2] = "}"
      THEN [threw |-> FALSE, value |-> t[1]]
      ELSE [threw |-> TRUE, value |-> Undefined]

\* String.prototype.split('\n'): the pieces between the line feeds, the
\* last piece being what follows the last line feed.
RECURSIVE split(_, _)
split(str, piece) ==
  IF str = <<>> THEN <<piece>>
  ELSE IF Head(str) = "\n" THEN <<piece>> \o split(Tail(str), <<>>)
  ELSE split(Tail(str), Append(piece, Head(str)))

ParserInit ==
  /\ ndPc = "none"
  /\ ndjson = [buffer |-> <<>>, lineCount |-> 0, errorCount |-> 0,
               maxErrorLogs |-> 0]
  /\ ndChunks = <<>>
  /\ ndOut = <<>>

\* constructor(options): maxErrorLogs = options.maxErrorLogs || 10
NewNDJSONParser(optMaxErrorLogs) ==
  /\ ndPc = "none"
  /\ ndPc' = "flowing"
  /\ ndjson' = [buffer |-> <<>>, lineCount |-> 0, errorCount |-> 0,
                maxErrorLogs |-> OptionOr(optMaxErrorLogs, defaultMaxErrorLogs)]
  /\ UNCHANGED <<ndChunks, ndOut>>
  /\ UNCHANGED nonParserVars

\* handleParseError: the error is logged and counted while errorCount is
\* below maxErrorLogs.
handleParseError(p) ==
  IF p.errorCount < p.maxErrorLogs
  THEN [p EXCEPT !.errorCount = p.errorCount + 1]
  ELSE p

\* One line: count it, skip it when it is blank, push the object it parses
\* to, or handle the parse error. The result is the parser and the output.
parseLine(line, acc) ==
  LET p == [acc.p EXCEPT !.lineCount = acc.p.lineCount + 1]
  IN  IF trim(line) = <<>> THEN [p |-> p, out |-> acc.out]
      ELSE IF JSONparse(line).threw
           THEN [p |-> handleParseError(p), out |-> acc.out]
           ELSE [p |-> p, out |-> Append(acc.out, JSONparse(line).value)]

\* the loop of _transform over the complete lines
RECURSIVE parseLines(_, _)
parseLines(lines, acc) ==
  IF lines = <<>> THEN acc
  ELSE parseLines(Tail(lines), parseLine(Head(lines), acc))

\* _transform(chunk, encoding, callback): the buffer and the chunk are
\* split into lines, the last piece is kept in the buffer, every other line
\* is parsed, and the callback is called without an error.
ndjsonTransform_noCarry(chunk) ==
  /\ ndPc = "flowing"
  /\ Len(Flat(ndChunks)) + Len(chunk) <= MaxInputLen
  /\ LET lines == split(chunk, <<>>)
         res == parseLines(SubSeq(lines, 1, Len(lines) - 1),
                           [p |-> ndjson, out |-> ndOut])
     IN  /\ ndjson' = [res.p EXCEPT !.buffer = lines[Len(lines)]]
         /\ ndOut' = res.out
  /\ ndChunks' = Append(ndChunks, chunk)
  /\ UNCHANGED ndPc
  /\ UNCHANGED nonParserVars

ndjsonTransform(chunk) ==
  /\ ndPc = "flowing"
  /\ Len(Flat(ndChunks)) + Len(chunk) <= MaxInputLen
  /\ LET lines == split(ndjson.buffer \o chunk, <<>>)
         res == parseLines(SubSeq(lines, 1, Len(lines) - 1),
                           [p |-> ndjson, out |-> ndOut])
     IN  /\ ndjson' = [res.p EXCEPT !.buffer = lines[Len(lines)]]
         /\ ndOut' = res.out
  /\ ndChunks' = Append(ndChunks, chunk)
  /\ UNCHANGED ndPc
  /\ UNCHANGED nonParserVars

\* _flush(callback): what is left in the buffer is the last line.
ndjsonFlush ==
  /\ ndPc = "flowing"
  /\ LET res == IF trim(ndjson.buffer) # <<>>
                THEN parseLine(ndjson.buffer, [p |-> ndjson, out |-> ndOut])
                ELSE [p |-> ndjson, out |-> ndOut]
     IN  /\ ndjson' = res.p
         /\ ndOut' = res.out
  /\ ndPc' = "finished"
  /\ UNCHANGED ndChunks
  /\ UNCHANGED nonParserVars

ParserNext ==
  \/ \E optMaxErrorLogs \in {0, 1} : NewNDJSONParser(optMaxErrorLogs)
  \/ \E chunk \in Chunks : ndjsonTransform(chunk)
  \/ ndjsonFlush

\* ------------------------------------------------------------------------
\* WorkerTransformer
\* ------------------------------------------------------------------------
\* JavaScript values a task can resolve with: null, a boolean, an object
\* (rec holds the record), an array (rec holds its items).
Null == [t |-> "null", rec |-> <<>>, b |-> FALSE]
True == [t |-> "boolean", rec |-> <<>>, b |-> TRUE]
Array(items) == [t |-> "array", rec |-> items, b |-> FALSE]

\* What submitTask's promise does: reject, or resolve with a value.
Reject == [rejected |-> TRUE, value |-> Null]
Resolve(value) == [rejected |-> FALSE, value |-> value]

\* The replies of a pool whose workers run options.workerScript. The
\* default script is worker.js: the promise settles with what the handler
\* of the task type does. A script of the caller may answer anything: an
\* error, null, a value, an array shorter or longer than the batch.
Replies(workerScript, taskType, data, n) ==
  IF workerScript = "default"
  THEN LET res == taskHandlers(taskType, data)
       IN  {IF res.threw THEN Reject ELSE Resolve(res.value[1])}
  ELSE {Reject, Resolve(Null), Resolve(True)} \cup
       {Resolve(Array(items)) :
          items \in UNION {[1..k -> {Null, True}] : k \in 0..(n + 1)}}

NoTask == [pending |-> FALSE, isBatch |-> FALSE, items |-> <<>>,
           data |-> processBatchData(<<>>)]

WtInit ==
  /\ wtPc = "none"
  /\ wt = [taskType |-> "transform", workerScript |-> "default",
           workerData |-> Undefined, batchSize |-> 1,
           initialized |-> FALSE, recordBatch |-> <<>>,
           pendingRecords |-> 0, processedCount |-> 0,
           transformedCount |-> 0]
  /\ wtIn = <<>>
  /\ wtCb = <<>>
  /\ wtOut = <<>>
  /\ wtTask = NoTask

\* constructor(options): batchSize = options.batchSize || 1; workerData is
\* {criteria: {level: criteria}} or not given.
NewWorkerTransformer(taskType, workerScript, criteria, optBatchSize) ==
  /\ wtPc = "none"
  /\ wtPc' = "flowing"
  /\ wt' = [taskType |-> taskType, workerScript |-> workerScript,
            workerData |-> criteria,
            batchSize |-> OptionOr(optBatchSize, 1),
            initialized |-> FALSE, recordBatch |-> <<>>,
            pendingRecords |-> 0, processedCount |-> 0,
            transformedCount |-> 0]
  /\ UNCHANGED <<wtIn, wtCb, wtOut, wtTask>>
  /\ UNCHANGED nonWtVars

\* processBatch up to its await: the batch is taken, pendingRecords grows
\* by its length and one task with {records, isBatch: true, options} is
\* submitted. t is the transformer and input the records handed over so
\* far; the result is the transformer and the task.
processBatchSubmit(t, input) ==
  LET items == t.recordBatch
  IN  [t |-> [t EXCEPT !.recordBatch = <<>>,
                       !.pendingRecords = t.pendingRecords + Len(items)],
       task |-> [pending |-> TRUE, isBatch |-> TRUE, items |-> items,
                 data |-> processBatchData([i \in 1..Len(items) |->
                                              input[items[i]]])]]

\* The writable side hands over the next record only when the callback of
\* every earlier record was called.
Writable == \A i \in 1..Len(wtCb) : wtCb[i] >= 1

\* _transform(record, encoding, callback) up to its first await on the
\* pool: the pool is initialised on the first record; in batch mode the
\* record and its callback are queued and, while the batch is not full, the
\* method returns without calling the callback; single-record mode and a
\* full batch submit a task.
wtTransform(record) ==
  /\ wtPc = "flowing"
  /\ Writable
  /\ ~wtTask.pending
  /\ Len(wtIn) < MaxWtRecords
  /\ wtIn' = Append(wtIn, record)
  /\ wtCb' = Append(wtCb, 0)
  /\ LET k == Len(wtIn) + 1
         t1 == [wt EXCEPT !.initialized = TRUE,
                          !.processedCount = wt.processedCount + 1]
     IN  IF t1.batchSize > 1
         THEN LET t2 == [t1 EXCEPT !.recordBatch = Append(t1.recordBatch, k)]
              IN  IF Len(t2.recordBatch) >= t2.batchSize
                  THEN /\ wt' = processBatchSubmit(t2, wtIn').t
                       /\ wtTask' = processBatchSubmit(t2, wtIn').task
                  ELSE /\ wt' = t2
                       /\ UNCHANGED wtTask
         ELSE /\ wt' = [t1 EXCEPT !.pendingRecords = t1.pendingRecords + 1]
              /\ wtTask' = [pending |-> TRUE, isBatch |-> FALSE,
                            items |-> <<k>>,
                            data |-> processRecordData(record)]
  /\ UNCHANGED <<wtPc, wtOut>>
  /\ UNCHANGED nonWtVars

\* The callbacks of the records in items are each called once more.
CallAll(cb, items) ==
  [i \in 1..Len(cb) |->
     cb[i] + Cardinality({j \in 1..Len(items) : items[j] = i})]

\* The values of an array that are not null, up to position k.
RECURSIVE NotNull(_, _)
NotNull(arr, k) ==
  IF k = 0 THEN <<>>
  ELSE IF arr[k] = Null THEN NotNull(arr, k - 1)
       ELSE Append(NotNull(arr, k - 1), arr[k])

\* processRecord after its await. A result that is not null is pushed and
\* the callback is called; a rejection calls the callback with the error.
processRecordResume(reply) ==
  LET k == wtTask.items[1]
  IN  /\ wtCb' = [wtCb EXCEPT ![k] = wtCb[k] + 1]
      /\ IF reply.rejected
         THEN /\ wt' = [wt EXCEPT !.pendingRecords = wt.pendingRecords - 1]
              /\ wtPc' = "errored"
              /\ UNCHANGED wtOut
         ELSE /\ wt' = [wt EXCEPT
                          !.pendingRecords = wt.pendingRecords - 1,
                          !.transformedCount =
                            IF reply.value = Null THEN wt.transformedCount
                            ELSE wt.transformedCount + 1]
              /\ wtOut' = IF reply.value = Null THEN wtOut
                          ELSE Append(wtOut, reply.value)
              /\ UNCHANGED wtPc

\* processBatch after its await. The results of an array are paired with
\* the callbacks by position; a result beyond the last callback calls
\* undefined, which throws; whatever throws after the await is caught, and
\* the catch block takes the batch from pendingRecords once more and calls
\* every callback of the batch with the error. after is the position of
\* the stream when nothing went wrong.
processBatchResume(reply, after) ==
  LET items == wtTask.items
      n == Len(items)
      isArray == ~reply.rejected /\ reply.value.t = "array"
      results == IF isArray THEN reply.value.rec ELSE <<>>
      m == IF Len(results) < n THEN Len(results) ELSE n
      \* positions of the loop that are reached: all, or up to the first
      \* one without a callback
      reached == IF Len(results) > n THEN n + 1 ELSE Len(results)
      threw == ~isArray \/ Len(results) > n
      pending1 == IF reply.rejected THEN wt.pendingRecords
                  ELSE wt.pendingRecords - n
      pushed == NotNull(results, reached)
      cb1 == CallAll(wtCb, SubSeq(items, 1, m))
  IN  /\ wtOut' = wtOut \o pushed
      /\ wt' = [wt EXCEPT
                  !.transformedCount = wt.transformedCount + Len(pushed),
                  !.pendingRecords = IF threw THEN pending1 - n ELSE pending1]
      /\ wtCb' = IF threw THEN CallAll(cb1, items) ELSE cb1
      /\ wtPc' = IF threw THEN "errored" ELSE after

\* _flush after processBatch: it waits, polling, until pendingRecords is 0,
\* then shuts the pool down and calls its callback.
FlushRest(pending) == IF pending > 0 THEN "waiting" ELSE "finished"

\* The pool settles the task and the method that awaits it goes on.
wtResume ==
  /\ wtTask.pending
  /\ \E reply \in Replies(wt.workerScript, wt.taskType, wtTask.data,
                          Len(wtTask.items)) :
       IF wtTask.isBatch
       THEN processBatchResume(reply,
              IF wtPc = "flushing"
              THEN FlushRest(wt.pendingRecords - Len(wtTask.items))
              ELSE wtPc)
       ELSE processRecordResume(reply)
  /\ wtTask' = NoTask
  /\ UNCHANGED wtIn
  /\ UNCHANGED nonWtVars

\* The source is exhausted and the pipe calls end().
wtEnd ==
  /\ wtPc = "flowing"
  /\ wtPc' = "ending"
  /\ UNCHANGED <<wt, wtIn, wtCb, wtOut, wtTask>>
  /\ UNCHANGED nonWtVars

\* _flush(callback): the stream calls it after end(), once every write has
\* completed. A partial batch is submitted first.
wtFlush ==
  /\ wtPc = "ending"
  /\ Writable
  /\ ~wtTask.pending
  /\ IF Len(wt.recordBatch) > 0
     THEN /\ wt' = processBatchSubmit(wt, wtIn).t
          /\ wtTask' = processBatchSubmit(wt, wtIn).task
          /\ wtPc' = "flushing"
     ELSE /\ wtPc' = FlushRest(wt.pendingRecords)
          /\ UNCHANGED <<wt, wtTask>>
  /\ UNCHANGED <<wtIn, wtCb, wtOut>>
  /\ UNCHANGED nonWtVars

WorkerStreamNext ==
  \/ \E taskType \in {"transform", "filter"} :
       \E workerScript \in {"default", "custom"} :
         \E criteria \in {Undefined, "ERROR"} :
           \E optBatchSize \in {0, 2} :
             NewWorkerTransformer(taskType, workerScript, criteria,
                                  optBatchSize)
  \/ \E record \in Records : wtTransform(record)
  \/ wtResume
  \/ wtEnd
  \/ wtFlush

\* ------------------------------------------------------------------------
\* ProgressStream and its ProgressTracker
\* ------------------------------------------------------------------------
ProgressInit ==
  /\ psPc = "none"
  /\ ps = [progressTracker |-> [fileSize |-> 0, bytesProcessed |-> 0,
                                finished |-> FALSE],
           tracker |-> Undefined]
  /\ psIn = <<>>
  /\ psOut = <<>>
  /\ psCallbacks = 0

\* constructor(filePath, reportInterval, options): the tracker is stored in
\* this.progressTracker; fs.statSync gives the size of the file (0 when it
\* fails). No property named tracker is set.
NewProgressStream(fileSize) ==
  /\ psPc = "none"
  /\ psPc' = "flowing"
  /\ ps' = [progressTracker |-> [fileSize |-> fileSize, bytesProcessed |-> 0,
                                 finished |-> FALSE],
            tracker |-> Undefined]
  /\ UNCHANGED <<psIn, psOut, psCallbacks>>
  /\ UNCHANGED nonProgressVars

\* ProgressTracker.update(bytes)
update(tracker, bytes) ==
  [tracker EXCEPT !.bytesProcessed = tracker.bytesProcessed + bytes]

\* ProgressTracker.finish()
finish(tracker) == [tracker EXCEPT !.finished = TRUE]

\* _transform(chunk, encoding, callback): this.tracker.update(chunk.length),
\* push(chunk), callback(). Reading a property of undefined throws a
\* TypeError, which leaves the method before the push and the callback.
psTransform(chunk) ==
  /\ psPc = "flowing"
  /\ psIn' = Append(psIn, chunk)
  /\ IF ps.tracker = Undefined
     THEN /\ psPc' = "threw"
          /\ UNCHANGED <<ps, psOut, psCallbacks>>
     ELSE /\ ps' = [ps EXCEPT !.tracker = update(ps.tracker, Len(chunk))]
          /\ psOut' = Append(psOut, chunk)
          /\ psCallbacks' = psCallbacks + 1
          /\ UNCHANGED psPc
  /\ UNCHANGED nonProgressVars

\* _flush(callback): this.tracker.finish(), callback(); then the 'end'
\* listener calls this.progressTracker.finish().
psFlush ==
  /\ psPc = "flowing"
  /\ IF ps.tracker = Undefined
     THEN /\ psPc' = "threw"
          /\ UNCHANGED ps
     ELSE /\ ps' = [ps EXCEPT !.tracker = finish(ps.tracker),
                              !.progressTracker = finish(ps.progressTracker)]
          /\ psPc' = "finished"
  /\ UNCHANGED <<psIn, psOut, psCallbacks>>
  /\ UNCHANGED nonProgressVars

ProgressNext ==
  \/ \E fileSize \in 0..MaxInputLen : NewProgressStream(fileSize)
  \/ \E chunk \in Chunks : psTransform(chunk)
  \/ psFlush

StreamInit == ParserInit /\ WtInit /\ ProgressInit

XformInit == StageInit /\ AggInit /\ WorkerInit /\ StreamInit

vars == <<poolVars, ckptVars, httpVars, xformVars>>
Init == PoolInit /\ CkptInit /\ HttpInit /\ XformInit
SpecPool == Init /\ [][PoolNext]_vars
SpecPoolCrash == Init /\ [][PoolCrashNext]_vars
SpecCkpt == Init /\ [][CkptNext]_vars
SpecCkptClock == Init /\ [][CkptClockNext]_vars
SpecHttp == Init /\ [][HttpNext]_vars
SpecStage == Init /\ [][StageNext]_vars
SpecAgg == Init /\ [][AggNext]_vars
SpecAggGroup == Init /\ [][AggGroupNext]_vars
SpecWorkerTask == Init /\ [][WorkerTaskNext]_vars
SpecParser == Init /\ [][ParserNext]_vars
SpecWorkerStream == Init /\ [][WorkerStreamNext]_vars
SpecProgress == Init /\ [][ProgressNext]_vars

\* The source is eventually exhausted, the pool's workers answer every
\* task, and the stream calls _flush as soon as it may.
WorkerStreamFairness ==
  /\ WF_vars(wtResume)
  /\ WF_vars(wtEnd)
  /\ WF_vars(wtFlush)

SpecWorkerStreamFair == SpecWorkerStream /\ WorkerStreamFairness

\* Every worker thread keeps running and the main thread's event loop
\* handles every message that has arrived.
PoolFairness ==
  /\ WF_vars(InitPool)
  /\ \A h \in Handles :
       /\ WF_vars(WorkerStart(h))
       /\ WF_vars(processTask(h, "result") \/ processTask(h, "error"))
       /\ WF_vars(HandleReady(h))
       /\ WF_vars(handleTaskResult(h))
       /\ WF_vars(handleTaskError(h))
       /\ WF_vars(handleWorkerStats(h))

SpecHealthy == Init /\ [][PoolHealthyNext]_vars /\ PoolFairness

\* The main thread's event loop also handles every 'error' and 'exit' event
\* of a worker, and the timer of a waiting shutdown() keeps polling.
PoolShutdownFairness ==
  /\ PoolFairness
  /\ \A h \in Handles :
       /\ WF_vars(HandleErrorEvent(h))
       /\ WF_vars(HandleExit(h))
  /\ WF_vars(checkQueue)

SpecPoolFair == Init /\ [][PoolNext]_vars /\ PoolShutdownFairness

\* ------------------------------------------------------------------------
\* Properties
\* ------------------------------------------------------------------------
Submitted == 1..(nextTask - 1)
Settled(t) == promise[t] \in {"resolved", "rejected"}

LostOn(h) == IF wlive[h] = "crashed" THEN Range(inbox[h]) ELSE {}

\* C2: a worker that crashed while running task t (pool not shutting down)
\* is removed from the worker list and the busy set and a replacement
\* with the same slot id is spawned; t is never queued again, never posted
\* to another worker, and its promise is never settled.
C2_CrashOrphansTask ==
  \A h \in Handles :
    /\ \A t \in LostOn(h) :
         /\ t \notin Range(taskQueue)
         /\ posted[t] = 1
         /\ \A g \in Handles \ {h} : t \notin Range(inbox[g])
         /\ promise[t] = "pending"
         /\ settles[t] = 0
    /\ (wlive[h] = "crashed" /\ events[h] = <<>> /\ ~shuttingDown) =>
         /\ h \notin Range(workers)
         /\ h \notin busyWorkers
         /\ \E g \in Handles \ {h} :
              wlive[g] # "none" /\ g > NumWorkers /\ wslot[g] = wslot[h]

C2_Witness ==
  \E h \in Handles :
    /\ wlive[h] = "crashed" /\ events[h] = <<>> /\ ~shuttingDown
    /\ LostOn(h) # {}
    /\ \E g \in Handles \ {h} : wslot[g] = wslot[h] /\ wlive[g] = "running"
    /\ stats.tasksCompleted >= 1

\* C3: after shutdown(force=false), whenever terminate() is issued to the
\* workers the task queue is empty and no worker is busy.
C3_TerminateOnlyWhenDrained ==
  [][(shutPc # "terminating" /\ shutPc' = "terminating" /\ ~shutForce')
       => (taskQueue = <<>> /\ busyWorkers = {})]_vars

\* C5: whatever the point at which the process is killed during
\* saveCheckpoint, the file at the checkpoint path is absent or a complete
\* checkpoint: it only ever changes, in one step, from what it was to the
\* complete new checkpoint.
C5_CheckpointAtomic ==
  /\ [](files[filePath].exists => files[filePath].complete)
  /\ [][\/ files'[filePath] = files[filePath]
        \/ files'[filePath] = FileOf(saveStats, TRUE)]_vars

C5_Witness ==
  /\ cmPc = "off"
  /\ files[tempFilePath].exists /\ ~files[tempFilePath].complete
  /\ files[filePath].exists
  /\ files[filePath].data.lastProcessedOffset > 0

\* The step in which main() decides whether to resume.
ResumeStep == cmPc = "started" /\ cmPc' = "running"

\* C6: a completed checkpoint is not resumed (the input is read from byte
\* 0); shouldResume() is true only if checkpointing is enabled,
\* lastProcessedOffset > 0 and the loaded checkpoint has status
\* 'interrupted' or 'running'.
C6_CompletedNotResumed ==
  [][ResumeStep =>
       LET f == files[filePath] IN
       /\ (enabled /\ f.exists /\ f.data.status = "completed"
             /\ f.data.lastProcessedOffset > 0)
            => (checkpointPosition'.isNull /\ readStart' = 0)
       /\ ~checkpointPosition'.isNull
            => /\ enabled
               /\ f.exists
               /\ f.data.lastProcessedOffset > 0
               /\ f.data.status \in {"interrupted", "running"}]_vars

\* C7: with an 'interrupted' checkpoint of lastProcessedOffset K > 0 on
\* disk, getResumePosition() returns offset K and the input read stream
\* starts at byte K.
C7_ResumeAtOffset ==
  [][ResumeStep =>
       LET f == files[filePath] IN
       (enabled /\ f.exists /\ f.data.status = "interrupted"
          /\ f.data.lastProcessedOffset > 0)
         => /\ ~checkpointPosition'.isNull
            /\ checkpointPosition'.offset = f.data.lastProcessedOffset
            /\ readStart' = f.data.lastProcessedOffset]_vars

C7_Witness ==
  /\ cmPc = "running"
  /\ enabled
  /\ recordCount = 0
  /\ files[filePath].exists
  /\ files[filePath].data.status = "interrupted"
  /\ files[filePath].data.lastProcessedOffset = MaxOffset
  /\ files[filePath].data.lastProcessedLine # MaxOffset
  /\ readStart = MaxOffset

\* C8: a save made after a checkpoint recording elapsedTimeMs = E was
\* loaded writes an elapsedTimeMs of at least E.
C8_ElapsedCumulative ==
  (savePc # "idle" /\ state.elapsedTimeMs # -1)
    => saveStats.elapsedTimeMs >= state.elapsedTimeMs

\* C9: lastProcessedOffset never decreases, neither in memory during a run
\* nor from one persisted checkpoint to the next.
C9_OffsetMonotonic ==
  [][/\ (cmPc # "off" /\ cmPc' # "off")
          => state'.lastProcessedOffset >= state.lastProcessedOffset
     /\ (files[filePath].exists /\ files'[filePath].exists)
          => files'[filePath].data.lastProcessedOffset
               >= files[filePath].data.lastProcessedOffset]_vars

\* Requests issued so far for the batch being sent.
Requests == Len(responses) + (IF sendPc = "request" THEN 1 ELSE 0)
AllFailed(rs) == \A i \in 1..Len(rs) : rs[i] \in FailureOutcomes

\* C4: sendBatch issues requests one at a time until the first success or
\* until `retries` attempts were made: never a request after a success,
\* never more than `retries`; it reports success right after the first 2xx
\* and a permanent failure after exactly `retries` failed requests.
C4_RetryUntilSuccessOrExhausted ==
  /\ Requests <= retries
  /\ sendPc \in {"request", "backoff"} => AllFailed(responses)
  /\ sendPc = "backoff" => Len(responses) < retries
  /\ (sendPc = "idle" /\ responses # <<>>) => sendResult \in {"success", "failed"}
  /\ sendResult = "success" =>
       /\ responses # <<>>
       /\ responses[Len(responses)] = "2xx"
       /\ AllFailed(SubSeq(responses, 1, Len(responses) - 1))
  /\ sendResult = "failed" =>
       /\ Len(responses) = retries
       /\ AllFailed(responses)
       /\ wstate = "errored"

C4_Witness ==
  /\ retries = 3
  /\ sendResult = "success"
  /\ Len(responses) = 3

\* C10: a send starts as soon as batchSize records are buffered, so no
\* request body holds more than batchSize records and fewer than batchSize
\* records are buffered whenever a write has been acknowledged.
C10_BatchBound ==
  /\ sendPc \in {"request", "backoff"} => Len(batchToSend) <= batchSize
  /\ wstate \in {"idle", "callback"} => Len(batch) < batchSize

\* C11: when the stream ends and every send succeeded, _final has sent the
\* remaining partial batch before completion is signalled: at completion the
\* buffer is empty and recordsSent = recordsReceived; with an empty buffer at
\* end-of-stream the sink completes without issuing a request.
C11_FinalFlush ==
  /\ [](wstate = "finished" =>
          /\ batch = <<>>
          /\ wbuffered = <<>>
          /\ sendPc = "idle"
          /\ hstats.recordsSent = hstats.recordsReceived)
  /\ [][(wstate # "finished" /\ wstate' = "finished") =>
          \/ /\ sendPc = "request" /\ sendCaller = "final"
             /\ batchToSend # <<>>
             /\ responses' = Append(responses, "2xx")
          \/ /\ sendPc = "idle" /\ batch = <<>>
             /\ responses' = responses /\ sendPc' = "idle"]_vars

C11_Witness ==
  /\ wstate = "finished"
  /\ sendCaller = "final"
  /\ sendResult = "success"
  /\ Len(batchToSend) = 1
  /\ batchSize = 2
  /\ hstats.batchesSent = 2
  /\ hstats.recordsReceived = 3

\* C12: when all `retries` attempts of a batch have failed, the callback gets
\* the error (the sink is aborted and takes no further step), batchesFailed
\* grows by one, recordsSent and batchesSent are unchanged, and no record of
\* the failed batch is back in the buffer.
C12_PermanentFailure ==
  /\ [][(sendResult # "failed" /\ sendResult' = "failed") =>
          /\ Len(responses') = retries
          /\ wstate' = "errored"
          /\ hstats'.batchesFailed = hstats.batchesFailed + 1
          /\ hstats'.recordsSent = hstats.recordsSent
          /\ hstats'.batchesSent = hstats.batchesSent
          /\ \A i \in 1..Len(batch') : \A j \in 1..Len(batchToSend) :
               batch'[i] # batchToSend[j]]_vars
  /\ [][wstate = "errored" => UNCHANGED httpVars]_vars

C12_Witness ==
  /\ sendResult = "failed"
  /\ wstate = "errored"
  /\ hstats.batchesFailed = 1
  /\ hstats.batchesSent = 1
  /\ hstats.recordsSent < hstats.recordsReceived
  /\ batch = <<>>

\* C13: after failed attempt a < retries the sender waits exactly
\* retryDelay * 2^(a-1) (the delay handed to setTimeout) before attempt a+1;
\* it does not wait after the last failed attempt nor after a success.
C13_ExponentialBackoff ==
  /\ [](/\ sendPc = "backoff" =>
             /\ attempt < retries
             /\ delay = retryDelay * 2^(attempt - 1)
        /\ sendPc # "backoff" => delay = 0)
  /\ [][/\ (sendPc = "request" /\ Len(responses') = Len(responses) + 1) =>
             IF responses'[Len(responses')] \in FailureOutcomes
                  /\ attempt < retries
             THEN sendPc' = "backoff"
             ELSE sendPc' = "idle"
        /\ (sendPc' = "request" /\ attempt' # attempt /\ attempt' > 1) =>
             /\ sendPc = "backoff"
             /\ attempt' = attempt + 1]_vars

C13_Witness ==
  /\ sendPc = "backoff"
  /\ retries = 3
  /\ attempt = 2
  /\ delay = 2000
  /\ Len(responses) = 2

\* The steps in which the pool runs processQueue(): submitTask, the handling
\* of a 'result' or 'error' message, and the end of replaceWorker.
ProcessQueueRun ==
  \/ submitTask
  \/ \E h \in Handles : handleTaskResult(h)
  \/ \E h \in Handles : handleTaskError(h)
  \/ \E h \in Handles : h > NumWorkers /\ HandleReady(h)

\* C14: tasks leave the queue in submission order (a task is assigned to a
\* worker no later than any task submitted after it), and after any run of
\* processQueue the queue is empty or every worker of the pool is busy.
C14_FifoDispatch ==
  /\ [](/\ \A t1, t2 \in Submitted :
             (t1 < t2 /\ posted[t2] > 0) => posted[t1] > 0
        /\ \A i, j \in 1..Len(taskQueue) :
             i < j => taskQueue[i] < taskQueue[j])
  /\ [][ProcessQueueRun =>
          (taskQueue' = <<>> \/ Range(workers') \subseteq busyWorkers')]_vars

C14_Witness ==
  /\ Len(taskQueue) = 1
  /\ taskQueue[1] = 3
  /\ posted[1] = 1 /\ posted[2] = 1
  /\ settles[1] = 1 /\ settles[2] = 0
  /\ busyWorkers # {}

\* Tasks in flight on worker h: posted to it and not yet processed, or
\* answered by it with the answer not yet handled by the pool.
InFlight(h) ==
  {inbox[h][i] : i \in 1..Len(inbox[h])}
    \cup {events[h][i].taskId :
            i \in {k \in 1..Len(events[h]) : events[h][k].type \in {"result", "error"}}}

\* C15: each task is posted at most once, to one worker, and never goes back
\* on the queue; a worker gets a task only when it is not in the busy set,
\* so it has at most one task in flight.
C15_AtMostOnceDispatch ==
  /\ [](/\ \A t \in Tasks :
             /\ posted[t] <= 1
             /\ posted[t] = 1 => t \notin Range(taskQueue)
             /\ Cardinality({h \in Handles : t \in InFlight(h)}) <= 1
        /\ \A h \in Handles :
             /\ Len(inbox[h]) + Cardinality({k \in 1..Len(events[h]) :
                    events[h][k].type \in {"result", "error"}}) <= 1
             /\ (InFlight(h) # {} /\ wlive[h] \in {"starting", "running"})
                  => h \in busyWorkers)
  /\ [][\A h \in Handles :
          Len(inbox'[h]) > Len(inbox[h]) =>
            /\ h \in busyWorkers'
            /\ \/ h \notin busyWorkers
               \/ /\ events[h] # <<>>
                  /\ Head(events[h]).type \in {"result", "error"}
                  /\ events'[h] = Tail(events[h])]_vars

C15_Witness ==
  /\ crashes = 1
  /\ posted[1] = 1 /\ posted[2] = 1
  /\ promise[1] = "pending" /\ promise[2] = "resolved"
  /\ \E h \in Handles : h > NumWorkers /\ wlive[h] = "running" /\ h \notin busyWorkers
  /\ \A h \in Handles : InFlight(h) = {} \/ wlive[h] = "crashed"

\* C16: a task is only ever posted to a worker that has emitted 'ready'.
C16_PostOnlyAfterReady ==
  [][\A h \in Handles :
       Len(inbox'[h]) > Len(inbox[h]) => wlive[h] # "starting"]_vars

\* C17: when a worker of init() has died before emitting 'ready' and the
\* pool has handled its 'error'/'exit' events, init() has been rejected.
C17_InitFailureRejects ==
  \A h \in 1..NumWorkers :
    (wlive[h] = "crashed" /\ cwp[h] = "pending" /\ events[h] = <<>>)
      => initState = "failed"

\* C18: once shutdown() was called, a submitTask call neither adds a task
\* to the queue nor dispatches one.
C18_NoSubmitAfterShutdown ==
  [][(shuttingDown /\ nextTask' # nextTask) =>
       (taskQueue' = taskQueue /\ posted' = posted)]_vars

\* C19: after shutdown(force=true) no task that is on the queue is ever
\* dispatched, whatever message arrives while the workers terminate.
C19_ForcedShutdownAbandonsQueue ==
  [][(shuttingDown /\ shutForce) =>
       \A t \in Range(taskQueue) : posted'[t] = posted[t]]_vars

\* C20: on SIGINT/SIGTERM with checkpointing enabled the handler marks the
\* state 'interrupted' without touching the progress fields, and the
\* checkpoint it saves before the process exits is complete, has status
\* 'interrupted' and carries the in-memory progress.
C20_InterruptSavesCheckpoint ==
  /\ [][(saveCaller' = "signal" /\ savePc = "idle" /\ savePc' = "begun") =>
          /\ state'.status = "interrupted"
          /\ state'.lastProcessedOffset = state.lastProcessedOffset
          /\ state'.lastProcessedLine = state.lastProcessedLine
          /\ state'.recordsProcessed = state.recordsProcessed]_vars
  /\ [][(saveCaller = "signal" /\ savePc = "written" /\ files' # files) =>
          /\ cmPc' = "off"
          /\ files'[filePath].exists
          /\ files'[filePath].complete
          /\ files'[filePath].data.status = "interrupted"
          /\ files'[filePath].data.lastProcessedOffset = state.lastProcessedOffset
          /\ files'[filePath].data.lastProcessedLine = state.lastProcessedLine
          /\ files'[filePath].data.recordsProcessed = state.recordsProcessed]_vars

C20_Witness ==
  /\ cmPc = "off"
  /\ runs = 1
  /\ files[filePath].exists
  /\ files[filePath].data.status = "interrupted"
  /\ files[filePath].data.lastProcessedOffset = MaxOffset
  /\ files[filePath].data.recordsProcessed = MaxRecords
  /\ ~files[tempFilePath].exists

\* C21: with checkpointing enabled, once k >= 1 parsed records have passed
\* the checkpoint-tracking stage, the in-memory checkpoint state has
\* recordsProcessed = k and a positive lastProcessedOffset.
C21_StateFollowsProgress ==
  (enabled /\ cmPc = "running" /\ savePc = "idle" /\ recordCount >= 1)
    => /\ state.recordsProcessed = recordCount
       /\ state.lastProcessedOffset > 0

\* The records of the calls on which the predicate's answer differs from
\* invert, in call order.
RECURSIVE Selected(_, _)
Selected(calls, invert) ==
  IF calls = <<>> THEN <<>>
  ELSE (IF Head(calls).out.matches # invert THEN <<Head(calls).record>>
        ELSE <<>>) \o Selected(Tail(calls), invert)

\* C22: for a FilterTransformer whose predicate has not thrown, the output
\* is exactly the input records r with predicate(r) XOR invert, unmodified
\* and in input order (invert being includeMatches = false), and no error
\* has been signalled.
C22_FilterInvariant ==
  (/\ stagePc # "none"
   /\ stage.kind = "filter"
   /\ \A i \in 1..Len(stageCalls) : ~stageCalls[i].out.threw)
    => /\ stageOut = Selected(stageCalls, ~stage.includeMatches)
       /\ stageErrors = 0
       /\ stagePc = "flowing"

\* An inverted criteria filter has dropped a matching record and then
\* forwarded a record that does not match.
C22_Witness ==
  /\ stage.kind = "filter"
  /\ ~stage.filter.fn
  /\ ~stage.includeMatches
  /\ Len(stageCalls) = 2
  /\ stageCalls[1].out.matches
  /\ ~stageCalls[2].out.matches
  /\ stageOut = <<stageCalls[2].record>>

\* C23: a no-op stage outputs exactly its input records, in input order,
\* and takes a record only when it has signalled completion of all the
\* records it took before.
C23_NoOpStage ==
  /\ [](stagePc # "none" /\ stage.kind = "base"
          => /\ stageOut = [i \in 1..Len(stageCalls) |-> stageCalls[i].record]
             /\ Len(stageCalls) = processedCount
             /\ stageErrors = 0)
  /\ [][stage.kind = "base" /\ processedCount' = processedCount + 1
          => /\ callbacks = processedCount
             /\ callbacks' = processedCount']_vars

\* A no-op stage has passed two different records.
C23_Witness ==
  /\ stagePc = "flowing"
  /\ stage.kind = "base"
  /\ Len(stageOut) = 2
  /\ stageOut[1] # stageOut[2]
  /\ callbacks = 2

KeysOf(seg) == {keyFn(seg[i]) : i \in 1..Len(seg)} \ {Undefined}
CountOf(seg, k) == Cardinality({i \in 1..Len(seg) : keyFn(seg[i]) = k})
MapKeys(m) == {m[i].key : i \in 1..Len(m)}

\* C24: every flush emits each group live at that moment exactly once,
\* annotated with its key and the number of records absorbed into it since
\* the flush before, and leaves the group table and the per-group counts
\* empty (the tables hold exactly the keys taken in since the last flush).
C24_FlushEmitsEachGroupOnce ==
  aggPc # "none" =>
    /\ Len(aggSegs) = Len(flushLog) + 1
    /\ \A f \in 1..Len(flushLog) :
         LET out == flushLog[f]
             seg == aggSegs[f]
         IN  /\ \A k \in KeysOf(seg) :
                  Cardinality({i \in 1..Len(out) : out[i].agg.key = k}) = 1
             /\ \A i \in 1..Len(out) :
                  /\ out[i].agg.present
                  /\ out[i].agg.key \in KeysOf(seg)
                  /\ out[i].level = out[i].agg.key
                  /\ out[i].agg.count = CountOf(seg, out[i].agg.key)
    /\ MapKeys(groups) = KeysOf(aggSegs[Len(aggSegs)])
    /\ MapKeys(recordsPerGroup) = KeysOf(aggSegs[Len(aggSegs)])
    /\ Len(groups) = Cardinality(MapKeys(groups))
    /\ Len(recordsPerGroup) = Cardinality(MapKeys(recordsPerGroup))

\* A flush has emitted two groups with different record counts and left
\* the tables empty, and a later flush has emitted one of the keys again
\* with its new count.
C24_Witness ==
  /\ Len(flushLog) = 2
  /\ Len(flushLog[1]) = 2
  /\ flushLog[1][1].agg.count = 2
  /\ flushLog[1][2].agg.count = 1
  /\ Len(flushLog[2]) = 1
  /\ flushLog[2][1].agg.key = flushLog[1][1].agg.key
  /\ flushLog[2][1].agg.count = 1
  /\ groups = <<>>
  /\ recordsPerGroup = <<>>

\* C25: the count aggregator, flushed once at the end of the stream, emits
\* exactly one group per distinct non-null key, and the count of each
\* group is the number of input records with its key, groups of a single
\* record included.
C25_CountBy ==
  (aggKind = "count" /\ aggPc = "finished" /\ Len(flushLog) = 1) =>
    LET out == flushLog[1]
        seg == aggSegs[1]
    IN  /\ Len(out) = Cardinality(KeysOf(seg))
        /\ \A k \in KeysOf(seg) : \E i \in 1..Len(out) : out[i].level = k
        /\ \A i \in 1..Len(out) :
             out[i].count = Num(CountOf(seg, out[i].level))

\* Sum, minimum and maximum of the values of a sequence of records.
RECURSIVE SumOf(_)
SumOf(seg) ==
  IF seg = <<>> THEN 0 ELSE Head(seg).value.v + SumOf(Tail(seg))
MinOf(seg) ==
  CHOOSE m \in {seg[i].value.v : i \in 1..Len(seg)} :
    \A i \in 1..Len(seg) : m <= seg[i].value.v
MaxOf(seg) ==
  CHOOSE m \in {seg[i].value.v : i \in 1..Len(seg)} :
    \A i \in 1..Len(seg) : m >= seg[i].value.v

\* A record as read from the input: it has a numeric value and none of the
\* fields the aggregator adds.
NumericInput(r) == r.value.t = "num" /\ ~r.agg.present

\* C26: a group of the stats combiner that absorbed n >= 2 input records
\* with integer values is emitted with count = n, sum, min and max of the
\* values, and avg = sum / count.
C26_StatsCombiner ==
  \A f \in 1..Len(flushLog) :
    LET seg == aggSegs[f]
    IN  (/\ aggKind = "stats"
         /\ Len(seg) >= 2
         /\ \A i \in 1..Len(seg) : NumericInput(seg[i]))
          => /\ Len(flushLog[f]) = 1
             /\ LET g == flushLog[f][1]
                IN  /\ g.count = Num(Len(seg))
                    /\ g.sum = Num(SumOf(seg))
                    /\ g.min = Num(MinOf(seg))
                    /\ g.max = Num(MaxOf(seg))
                    /\ g.avg = Divide(g.sum, g.count)

\* The group a combiner makes of a non-empty sequence of records of one
\* key, in one go.
RECURSIVE FoldOf(_, _)
FoldOf(kind, recs) ==
  IF Len(recs) = 1 THEN recs[1]
  ELSE aggregateFn(kind, FoldOf(kind, SubSeq(recs, 1, Len(recs) - 1)),
                   recs[Len(recs)])

AccFields(g) == <<g.count, g.sum, g.min, g.max, g.avg>>

\* Input records a, b were flushed as one group, and that group record
\* followed by the input record c was flushed as one group again.
Reloaded(f) ==
  /\ f + 1 <= Len(flushLog)
  /\ Len(aggSegs[f]) = 2
  /\ \A i \in 1..2 : ~aggSegs[f][i].agg.present
  /\ Len(flushLog[f]) = 1
  /\ Len(aggSegs[f + 1]) = 2
  /\ aggSegs[f + 1][1] = flushLog[f][1]
  /\ ~aggSegs[f + 1][2].agg.present
  /\ Len(flushLog[f + 1]) = 1

\* C27: for both combiners, flushing after [a, b] and then feeding the
\* flushed group record and c to the emptied aggregator gives the same
\* count, sum, min, max and avg as aggregating [a, b, c] in one go.
C27_Associativity ==
  \A f \in 1..Len(flushLog) :
    Reloaded(f) =>
      AccFields(flushLog[f + 1][1]) =
        AccFields(FoldOf(aggKind, aggSegs[f] \o <<aggSegs[f + 1][2]>>))

\* The stats combiner has gone through the reload with three numeric
\* records, the counter with any three records.
C27_Witness ==
  /\ Reloaded(1)
  /\ aggKind = "stats"
  /\ \A i \in 1..2 : aggSegs[1][i].value.t = "num"
  /\ aggSegs[2][2].value.t = "num"
  /\ flushLog[2][1].count = Num(3)

C30_BatchResultShape ==
  (wkPc = "replied" /\ wkTask.data.isBatch)
    => /\ wkReply.type = "result"
       /\ wkReply.isArray
       /\ Len(wkReply.result) = Len(wkTask.data.records)

\* What one line of the input gives: the object of a well-formed line,
\* nothing for a blank or a malformed line.
RecordOfLine(line) ==
  IF JSONparse(line).threw THEN <<>> ELSE <<JSONparse(line).value>>

\* 1 for a line that is not blank and does not parse, 0 otherwise.
MalformedLine(line) ==
  IF trim(line) # <<>> /\ JSONparse(line).threw THEN 1 ELSE 0

\* The records of the well-formed lines of a text, in the order of the
\* text: of the lines ended by a line feed and, at the end of the input,
\* of the last line too.
RECURSIVE RecordsOf(_, _, _)
RecordsOf(text, line, atEnd) ==
  IF text = <<>> THEN (IF atEnd THEN RecordOfLine(line) ELSE <<>>)
  ELSE IF Head(text) = "\n"
       THEN RecordOfLine(line) \o RecordsOf(Tail(text), <<>>, atEnd)
       ELSE RecordsOf(Tail(text), Append(line, Head(text)), atEnd)

\* The number of malformed lines of a whole input.
RECURSIVE MalformedIn(_, _)
MalformedIn(text, line) ==
  IF text = <<>> THEN MalformedLine(line)
  ELSE IF Head(text) = "\n"
       THEN MalformedLine(line) + MalformedIn(Tail(text), <<>>)
       ELSE MalformedIn(Tail(text), Append(line, Head(text)))

C39_ParseErrorsCounted ==
  ndPc = "finished" => ndjson.errorCount = MalformedIn(Flat(ndChunks), <<>>)

\* C33: in batch mode (batchSize > 1), with an upstream that hands over the
\* next record only after the callback of the previous one, the callback
\* of every accepted record is eventually called, and once the source is
\* exhausted _flush runs to its end (or the stream fails on an error of
\* the pool).
C33_BatchModeProgress ==
  /\ (wt.batchSize > 1 /\ ~Writable) ~> Writable
  /\ (wt.batchSize > 1 /\ wtPc = "ending" /\ Len(wtIn) >= 1)
       ~> (wtPc \in {"finished", "errored"})

\* C36: the completion callback of every record accepted by _transform is
\* called exactly once: never twice, and eventually once.
C36_CallbackExactlyOnce ==
  /\ [](\A i \in 1..Len(wtCb) : wtCb[i] <= 1)
  /\ (~Writable) ~> (\A i \in 1..Len(wtCb) : wtCb[i] = 1)

\* The transformer as the CLI builds it under --parallel for a filter
\* level:criteria: task type 'filter', workerData {criteria}, the default
\* worker script and batch size.
CliFilter ==
  /\ wtPc # "none"
  /\ wt.taskType = "filter"
  /\ wt.workerScript = "default"
  /\ wt.workerData # Undefined
  /\ wt.batchSize = 1

\* What the in-process FilterTransformer built from the same criteria
\* pushes for the same records.
RECURSIVE InProcessFilter(_, _)
InProcessFilter(records, criteria) ==
  IF records = <<>> THEN <<>>
  ELSE (IF createFilterFromObject(criteria, Head(records))
        THEN <<[t |-> "object", rec |-> <<Head(records)>>, b |-> FALSE]>>
        ELSE <<>>) \o InProcessFilter(Tail(records), criteria)

\* C37: whenever the offloaded filter stage has completed the records it
\* was given, it has pushed what the in-process filter pushes for them.
C37_OffloadedFilterEquivalent ==
  (CliFilter /\ ~wtTask.pending) =>
     wtOut = InProcessFilter(wtIn, wt.workerData)

\* C40: the ProgressStream has pushed every chunk it was given, unchanged
\* and in order, has called the callback of each without an error, and its
\* flush ends without an error.
C40_ProgressPassThrough ==
  psPc # "none" =>
    /\ psPc # "threw"
    /\ psOut = psIn
    /\ psCallbacks = Len(psIn)

\* The worker threads of the list that have not died.
LiveWorkers == {h \in Range(workers) : wlive[h] \in {"starting", "running"}}

\* C32: once init() has created the workers, and whatever workers crash and
\* are replaced, the list never holds more than numWorkers workers, and no
\* two live workers of the list have the same slot id.
C32_PoolSizeFixed ==
  initState = "ready" =>
    /\ Len(workers) <= NumWorkers
    /\ \A g, h \in LiveWorkers : g # h => wslot[g] # wslot[h]

\* C34: a shutdown(false) that has begun while every worker of the list is
\* alive eventually ends, also when a worker dies after that: every worker
\* has terminated, the worker list and the busy set are empty.
C34_ShutdownTerminates ==
  (shutPc # "none" /\ ~shutForce /\ LiveWorkers = Range(workers))
     ~> (shutPc = "done" /\ workers = <<>> /\ busyWorkers = {})

\* The pool has been told of the death of worker h: the thread is gone and
\* no 'error' or 'exit' event of it is still to be handled.
KnownDead(h) ==
  /\ wlive[h] \in {"crashed", "terminated"}
  /\ \A i \in 1..Len(events[h]) : events[h][i].type \notin {"errorEvent", "exit"}

\* Tasks in flight on a worker the pool takes to be alive, or answered with
\* the answer still to be handled.
InFlightTasks ==
  {t \in Tasks : \E h \in Handles :
     \/ t \in Range(inbox[h]) /\ ~KnownDead(h)
     \/ \E i \in 1..Len(events[h]) :
          events[h][i].type \in {"result", "error"} /\ events[h][i].taskId = t}

\* Tasks that were posted and will never be answered: their worker died or
\* was terminated.
LostTasks ==
  {t \in Tasks : posted[t] >= 1 /\ settles[t] = 0 /\ t \notin InFlightTasks}

\* C35: every submitted task is on the queue, in flight, counted as
\* completed or errored, or lost with its worker; whenever the pool has
\* handled every message and event of its workers there are as many tasks
\* in flight as busy workers; every busy worker is on the worker list, and
\* the counters of stats never decrease.
C35_TaskConservation ==
  /\ [](/\ stats.tasksSubmitted =
             Len(taskQueue) + Cardinality(InFlightTasks)
               + stats.tasksCompleted + stats.tasksErrored
               + Cardinality(LostTasks)
        /\ (\A h \in Handles : events[h] = <<>>) =>
             Cardinality(InFlightTasks) = Cardinality(busyWorkers)
        /\ busyWorkers \subseteq Range(workers))
  /\ [][/\ stats'.tasksSubmitted >= stats.tasksSubmitted
        /\ stats'.tasksCompleted >= stats.tasksCompleted
        /\ stats'.tasksErrored >= stats.tasksErrored]_vars

\* The records a + 1 .. a + n, in the order the upstream wrote them.
Consecutive(a, n) == [i \in 1..n |-> a + i]

\* The records of the batch sendBatch is sending, and of the batch it gave
\* up on for good.
InSend == IF sendPc # "idle" THEN Len(batchToSend) ELSE 0
Failed == IF sendPc = "idle" /\ sendResult = "failed"
          THEN Len(batchToSend) ELSE 0

\* C38: the records received are those sent, those of the batch in hand
\* (being sent, or failed for good) and those buffered, in this order and
\* each once: the batch in hand is the run of records that follows the
\* records sent, the buffer the run that follows it, and recordsSent grows
\* only by the batch in hand when its request succeeds. With no send in
\* progress recordsReceived = recordsSent + buffered + failed.
C38_RecordConservation ==
  /\ [](wstate # "new" =>
          /\ hstats.recordsReceived =
               hstats.recordsSent + InSend + Failed + Len(batch)
          /\ (InSend + Failed > 0) =>
               batchToSend = Consecutive(hstats.recordsSent, Len(batchToSend))
          /\ batch = Consecutive(hstats.recordsSent + InSend + Failed,
                                 Len(batch)))
  /\ [][hstats'.recordsSent # hstats.recordsSent =>
          /\ sendPc = "request"
          /\ hstats'.recordsSent = hstats.recordsSent + Len(batchToSend)]_vars

C38_Witness ==
  /\ sendPc = "idle"
  /\ sendResult = "failed"
  /\ batchSize = 2
  /\ hstats.recordsSent = 2
  /\ batchToSend = <<3, 4>>
  /\ hstats.recordsReceived = 4

====
